---- MODULE Spec2Model ----
(***************************************************************************)
(* Lifecycle orchestrator of dam-automation: naming policy, file-backed    *)
(* state store, create_datasource with its tenacity retry wrapper, and     *)
(* delete_datasource with its four subsystem teardowns.                    *)
(*                                                                         *)
(* Strings are sequences of one-character strings so that the naming       *)
(* policy and the file-name sanitiser are computed character by character. *)
(* Optional values (None) are sequences of length 0 or 1.                  *)
(***************************************************************************)
EXTENDS Integers, Sequences, FiniteSets, TLC

VARIABLES naming, clock, files, remote, minted, faults, cur, del, prev, st, wf, nm, cli, th, rq, tk

vars == <<naming, clock, files, remote, minted, faults, cur, del, prev, st, wf, nm, cli, th, rq, tk>>

\* the callers of the components exercised on their own
harness == <<st, wf, nm, cli, th, rq, tk>>

\* the state of the lifecycle orchestrator
service == <<remote, minted, faults, cur, del, prev>>

(***************************************************************************)
(* Bounds of the exploration                                               *)
(***************************************************************************)
\* operations invoked one after the other in one behaviour of Spec
MaxCalls == 2
\* remote failures injected in one behaviour of Spec
MaxFaults == 1
\* remote failures injected in the single create call of SpecRetry
MaxRetryFaults == 3
\* remote failures injected in the single delete call of SpecTeardown
MaxTeardownFaults == 1

\* request names offered to create_datasource / delete_datasource: one that
\* the naming policy leaves alone, one that it rewrites to the same name, and
\* the name of another datasource
RawNames == { <<"a", "-", "b">>, <<"A", "/", "b">>, <<"c">> }
\* naming.prefix values (None / "" is the empty sequence)
Prefixes == { <<>>, <<"p">> }
\* naming.separator values
Separators == { <<"-">> }

(***************************************************************************)
(* Naming policy                                                           *)
(***************************************************************************)
UpperCase == <<"A","B","C","D","E","F","G","H","I","J","K","L","M","N","O","P","Q","R","S","T","U","V","W","X","Y","Z">>

LowerCase == <<"a","b","c","d","e","f","g","h","i","j","k","l","m","n","o","p","q","r","s","t","u","v","w","x","y","z">>

Digits == {"0","1","2","3","4","5","6","7","8","9"}

\* str.lower() on one character
LowerChar(c) == IF \E i \in 1..26 : UpperCase[i] = c THEN LowerCase[CHOOSE i \in 1..26 : UpperCase[i] = c] ELSE c

\* str.upper() on one character
UpperChar(c) == IF \E i \in 1..26 : LowerCase[i] = c THEN UpperCase[CHOOSE i \in 1..26 : LowerCase[i] = c] ELSE c

Lower(s) == IF s = <<>> THEN <<>> ELSE [i \in 1..Len(s) |-> LowerChar(s[i])]

Upper(s) == IF s = <<>> THEN <<>> ELSE [i \in 1..Len(s) |-> UpperChar(s[i])]

\* the character class [a-z0-9-]
NameChars == {LowerCase[i] : i \in 1..26} \cup Digits \cup {"-"}

\* re.sub(r"[^a-z0-9-]", "-", candidate)
SubInvalid(s) == IF s = <<>> THEN <<>> ELSE [i \in 1..Len(s) |-> IF s[i] \in NameChars THEN s[i] ELSE "-"]

RECURSIVE LStrip(_)
LStrip(s) == IF s # <<>> /\ Head(s) = "-" THEN LStrip(Tail(s)) ELSE s

RECURSIVE RStrip(_)
RStrip(s) == IF s # <<>> /\ s[Len(s)] = "-" THEN RStrip(SubSeq(s, 1, Len(s) - 1)) ELSE s

\* candidate.strip("-")
StripDashes(s) == RStrip(LStrip(s))

\* re.sub(r"-+", "-", candidate)
RECURSIVE CollapseDashes(_)
CollapseDashes(s) == IF Len(s) < 2 THEN s ELSE IF s[1] = "-" /\ s[2] = "-" THEN CollapseDashes(Tail(s)) ELSE <<s[1]>> \o CollapseDashes(Tail(s))

\* AutomationConfig.qualify_name
qualify_name(base) == IF naming.prefix # <<>> THEN naming.prefix \o naming.separator \o base ELSE base

\* the slice [:63]
NameLimit == 63

Truncate(s) == IF Len(s) > NameLimit THEN SubSeq(s, 1, NameLimit) ELSE s

\* DatasourceAutomationService._normalize_name
normalize_name(raw_name) == Truncate(qualify_name(CollapseDashes(StripDashes(SubInvalid(Lower(raw_name))))))

(***************************************************************************)
(* Domain models                                                           *)
(***************************************************************************)
\* an exception: its class and its message (str(exc))
Exc(cls, where) == [cls |-> cls, msg |-> <<cls, where>>]

\* str(error)
ErrorText(exc) == exc.msg

\* datetime.utcnow()
utcnow == [sec |-> clock.sec, us |-> clock.us]

DatasourceRequest(name) == [name |-> name]

\* the twelve required fields of DatasourceResources
ResourceFields == {"container_url", "managed_identity_id", "storage_credential_name", "external_location_name", "catalog_name", "group_name", "service_principal_app_id", "service_principal_client_secret", "databricks_oauth_client_secret", "snowflake_external_volume_name", "snowflake_catalog_integration_name", "snowflake_database_name"}

\* DatasourceRecord(request=..., resources=...): status defaults to
\* "succeeded", last_error to None, updated_at to utcnow()
DatasourceRecord(request, resources) == [request |-> request, resources |-> resources, status |-> "succeeded", last_error |-> <<>>, updated_at |-> utcnow]

\* a mark_failed that forgets the error text
mark_failed_NoError(record, error) == [record EXCEPT !.status = "failed", !.updated_at = utcnow]

\* DatasourceRecord.mark_failed
mark_failed(record, error) == [record EXCEPT !.status = "failed", !.last_error = <<ErrorText(error)>>, !.updated_at = utcnow]

\* DatasourceRecord.mark_succeeded
mark_succeeded(record) == [record EXCEPT !.status = "succeeded", !.last_error = <<>>, !.updated_at = utcnow]

\* DatasourceAutomationService._empty_resources (secrets: 0 is the empty string)
empty_resources == [container_url |-> <<>>, managed_identity_id |-> <<>>, storage_credential_name |-> <<>>, external_location_name |-> <<>>, catalog_name |-> <<>>, group_name |-> <<>>, service_principal_app_id |-> <<>>, service_principal_client_secret |-> 0, databricks_oauth_client_secret |-> 0, snowflake_external_volume_name |-> <<>>, snowflake_catalog_integration_name |-> <<>>, snowflake_database_name |-> <<>>, created_at |-> utcnow]

(***************************************************************************)
(* State store                                                             *)
(***************************************************************************)
\* _serialize_datetime: microseconds dropped, "Z" appended
serialize_datetime(value) == [iso |-> value.sec, z |-> "Z"]

\* _deserialize_datetime
deserialize_datetime(value) == [sec |-> value.iso, us |-> 0]

\* _record_to_json
record_to_json(record) == [request |-> record.request, resources |-> [record.resources EXCEPT !.created_at = serialize_datetime(@)], status |-> record.status, last_error |-> record.last_error, updated_at |-> serialize_datetime(record.updated_at)]

\* the keyword arguments _json_to_record passes to DatasourceResources
JsonResourceArgs == {"container_url", "managed_identity_id", "storage_credential_name", "external_location_name", "catalog_name", "group_name", "service_principal_app_id", "created_at"}

\* _json_to_record: the DatasourceResources constructor raises TypeError when
\* a required field is not passed
json_to_record(data) == IF ResourceFields \subseteq JsonResourceArgs THEN [kind |-> "ok", record |-> <<[request |-> data.request, resources |-> [data.resources EXCEPT !.created_at = deserialize_datetime(@)], status |-> data.status, last_error |-> data.last_error, updated_at |-> deserialize_datetime(data.updated_at)]>>, exc |-> <<>>] ELSE [kind |-> "raise", record |-> <<>>, exc |-> <<Exc("TypeError", "DatasourceResources.__init__")>>]

\* StateStore._path_for
path_for(datasource_name) == (IF datasource_name = <<>> THEN <<>> ELSE [i \in 1..Len(datasource_name) |-> IF datasource_name[i] = "/" THEN "_" ELSE datasource_name[i]]) \o <<".json">>

\* StateStore.get
StateGet(datasource_name) == IF path_for(datasource_name) \notin DOMAIN files THEN [kind |-> "ok", record |-> <<>>, exc |-> <<>>] ELSE json_to_record(files[path_for(datasource_name)])

\* StateStore.save: the file content after the write
StateSave(record) == [p \in DOMAIN files \cup {path_for(record.request.name)} |-> IF p = path_for(record.request.name) THEN record_to_json(record) ELSE files[p]]

\* StateStore.exists
StateExists(datasource_name) == path_for(datasource_name) \in DOMAIN files

\* StateStore.list_records: one record per *.json file, in the order glob
\* yields them; a document that cannot be loaded raises out of the loop
RECURSIVE ListFrom(_)
ListFrom(paths) == IF paths = {} THEN [kind |-> "ok", records |-> <<>>, exc |-> <<>>]
                   ELSE LET path == CHOOSE p \in paths : TRUE
                            loaded == json_to_record(files[path])
                            rest == ListFrom(paths \ {path})
                        IN  IF loaded.kind = "raise" THEN [kind |-> "raise", records |-> <<>>, exc |-> loaded.exc]
                            ELSE IF rest.kind = "raise" THEN rest
                            ELSE [kind |-> "ok", records |-> loaded.record \o rest.records, exc |-> <<>>]

StateList == ListFrom(DOMAIN files)

(***************************************************************************)
(* Remote subsystems                                                       *)
(***************************************************************************)
\* a creation sequence that creates the catalog before its external location
CreateSteps_CatalogFirst == <<"ensure_container", "ensure_user_assigned_identity", "ensure_storage_account_role_assignment_identity", "attach_identity_to_access_connector", "ensure_application", "ensure_service_principal", "ensure_group", "add_group_member", "ensure_storage_account_role_assignment_sp", "create_application_secret", "ensure_account_service_principal", "ensure_workspace_service_principal", "ensure_account_service_principal_identity", "databricks_ensure_group", "add_service_principal_to_group", "create_service_principal_secret", "ensure_storage_credential", "ensure_catalog", "ensure_external_location", "grant_catalog_privileges_all", "ensure_external_volume", "ensure_catalog_integration", "ensure_catalog_linked_database", "prime_catalog_linked_database">>

\* the remote calls of _provision_resources, in program order
CreateSteps == <<"ensure_container", "ensure_user_assigned_identity", "ensure_storage_account_role_assignment_identity", "attach_identity_to_access_connector", "ensure_application", "ensure_service_principal", "ensure_group", "add_group_member", "ensure_storage_account_role_assignment_sp", "create_application_secret", "ensure_account_service_principal", "ensure_workspace_service_principal", "ensure_account_service_principal_identity", "databricks_ensure_group", "add_service_principal_to_group", "create_service_principal_secret", "ensure_storage_credential", "ensure_external_location", "ensure_catalog", "grant_catalog_privileges_all", "ensure_external_volume", "ensure_catalog_integration", "ensure_catalog_linked_database", "prime_catalog_linked_database">>

LastStep == Len(CreateSteps)

\* classes of the exceptions a remote call raises: the builtin ConnectionError
\* and TimeoutError, and any other class (RuntimeError, HTTPError, ...)
ExcClasses == {"ConnectionError", "TimeoutError", "RuntimeError"}

\* DatabricksProvisioner._service_principal_secret_exists
service_principal_secret_exists(nn) == <<nn, "create_service_principal_secret">> \in remote

(***************************************************************************)
(* tenacity retry wrapper of _provision_resources                          *)
(***************************************************************************)
\* stop=stop_after_attempt(3)
StopAfterAttempt == 3

\* wait=wait_exponential(multiplier=1, min=1, max=8)
WaitMultiplier == 1

WaitMin == 1

WaitMax == 8

Max2(a, b) == IF a >= b THEN a ELSE b

Min2(a, b) == IF a <= b THEN a ELSE b

\* the exponent counts the failed attempt itself: waits of 2, 4 instead of 1, 2
WaitExponential_OffByOne(attempt_number) == Max2(Max2(0, WaitMin), Min2(WaitMultiplier * 2 ^ attempt_number, WaitMax))

\* wait_exponential.__call__ for the attempt that just failed
WaitExponential(attempt_number) == Max2(Max2(0, WaitMin), Min2(WaitMultiplier * 2 ^ (attempt_number - 1), WaitMax))

\* retry on any exception class
RetryIfExceptionType_Any(exc) == exc.cls \in {"ConnectionError", "TimeoutError", "RuntimeError"}

\* retry=retry_if_exception_type((ConnectionError, TimeoutError))
RetryIfExceptionType(exc) == exc.cls \in {"ConnectionError", "TimeoutError"}

\* stops one attempt early
ShouldRetry_StopsEarly(exc, attempt_number) == RetryIfExceptionType(exc) /\ attempt_number + 1 < StopAfterAttempt

\* the wrapper calls the function again after this failure
ShouldRetry(exc, attempt_number) == RetryIfExceptionType(exc) /\ attempt_number < StopAfterAttempt

(***************************************************************************)
(* create_datasource                                                       *)
(***************************************************************************)
IdleCall == [op |-> "none", name |-> <<>>, nn |-> <<>>, pc |-> "idle", step |-> 0, attempt |-> 0, existing |-> <<>>, azure_secret |-> 0, databricks_secret |-> 0, log |-> <<>>, sleeps |-> <<>>, remote_called |-> FALSE, azure_mints |-> 0, databricks_mints |-> 0, saves |-> 0, injected |-> 0, outcome |-> "none", ret |-> <<>>, err |-> <<>>, short |-> FALSE, prior |-> {}, calls |-> <<>>, in_use |-> 0]

NewCall(op, name) == [IdleCall EXCEPT !.op = op, !.name = name, !.nn = normalize_name(name), !.pc = "begin", !.prior = {files[p] : p \in {q \in DOMAIN files : q \in {path_for(name), path_for(normalize_name(name))} \/ normalize_name(files[q].request.name) = normalize_name(name)}}]

\* what the caller of a finished call saw
Summary(c) == [op |-> c.op, name |-> c.name, outcome |-> c.outcome, ret |-> c.ret, err |-> c.err, injected |-> c.injected, short |-> c.short, attempts |-> Len(c.log)]

IdleDelete == [pc |-> "idle", record |-> <<>>, state_key |-> <<>>, state_exists |-> FALSE, stored |-> FALSE, identity_info |-> FALSE, identity_lookup_error |-> FALSE, service_principal_info |-> FALSE, service_principal_lookup_error |-> FALSE, attempted |-> {}, failed |-> {}, state_deleted |-> FALSE, files0 |-> <<>>, absent0 |-> FALSE, calls |-> <<>>, errors |-> {}]

\* the secret cached in the prior record ("" is 0)
cached_azure_secret(existing) == IF existing # <<>> /\ existing[1].resources.service_principal_client_secret # 0 THEN existing[1].resources.service_principal_client_secret ELSE 0

cached_databricks_secret(existing) == IF existing # <<>> /\ existing[1].resources.databricks_oauth_client_secret # 0 THEN existing[1].resources.databricks_oauth_client_secret ELSE 0

\* the remote calls the running attempt of _provision_resources has made so
\* far, in program order, each with whether it returned and with the error
\* the integration system answered, if any
AttemptCalls == IF cur.step = 1 THEN <<>> ELSE cur.calls

Answered(step, ok, answer) == [step |-> step, ok |-> ok, answer |-> answer]

Invoked(step, ok) == Answered(step, ok, <<>>)

\* the call the attempt is about to make: the step at cur.step, or the
\* cleanup that follows an in-use report
CurrentCall == IF cur.in_use = 1 THEN "cleanup_catalog_linked_artifacts" ELSE CreateSteps[cur.step]

\* the step sends a request to a remote subsystem
CallsRemote(step, existing) == /\ ~(step = "create_application_secret" /\ cached_azure_secret(existing) # 0)
                               /\ ~(step = "create_service_principal_secret" /\ cached_databricks_secret(existing) # 0)

\* create_service_principal_secret refuses to mint a second secret of that name
SecretNameTaken(step, existing, nn) == step = "create_service_principal_secret" /\ cached_databricks_secret(existing) = 0 /\ service_principal_secret_exists(nn)

\* the ProgrammingErrors the integration system answers a CREATE with: the
\* SQL state and the phrases its message contains
ProgrammingErrors == {[sqlstate |-> "42710", msg |-> {}], [sqlstate |-> "", msg |-> {"already exists"}], [sqlstate |-> "", msg |-> {"cannot be replaced", "catalog integration"}], [sqlstate |-> "", msg |-> {"invalid_client"}], [sqlstate |-> "", msg |-> {"not authorized"}], [sqlstate |-> "", msg |-> {}]}

\* SnowflakeProvisioner._is_existing_object_error
is_existing_object_error(exc) == exc.sqlstate = "42710" \/ "already exists" \in exc.msg

\* SnowflakeProvisioner._is_authorization_error
is_authorization_error(exc) == "invalid_client" \in exc.msg \/ "not authorized" \in exc.msg

\* SnowflakeProvisioner._is_integration_in_use_error
is_integration_in_use_error(exc) == "cannot be replaced" \in exc.msg /\ "catalog integration" \in exc.msg

\* ensure_catalog_integration when the CREATE is answered with exc: it
\* returns, or the class it raises
ensure_catalog_integration(exc) == IF is_existing_object_error(exc) THEN "returns" ELSE IF is_integration_in_use_error(exc) THEN "SnowflakeIntegrationInUseError" ELSE "ProgrammingError"

\* a linked-database creation that takes an authentication rejection for success
ensure_catalog_linked_database_Lenient(exc) == IF is_existing_object_error(exc) \/ is_authorization_error(exc) THEN "returns" ELSE "ProgrammingError"

\* ensure_catalog_linked_database when the CREATE is answered with exc
ensure_catalog_linked_database(exc) == IF is_existing_object_error(exc) THEN "returns" ELSE IF is_authorization_error(exc) THEN "SnowflakeAuthorizationError" ELSE "ProgrammingError"

\* what a step does with a ProgrammingError (<<>> when the step gets none)
StepOutcomes(step) == IF step = "ensure_catalog_integration" THEN {[answer |-> <<exc>>, does |-> ensure_catalog_integration(exc)] : exc \in ProgrammingErrors}
                      ELSE IF step = "ensure_catalog_linked_database" THEN {[answer |-> <<exc>>, does |-> ensure_catalog_linked_database(exc)] : exc \in ProgrammingErrors}
                      ELSE {}

\* an in-use report that reaches the except branch at every call
InUseCaught_Always(in_use) == TRUE

\* the except SnowflakeIntegrationInUseError branch of _provision_resources
\* covers the first call of ensure_catalog_integration only
InUseCaught(in_use) == in_use = 0

\* no step is wrapped in a try block that swallows its failure
BestEffort_None(step) == FALSE

\* the steps whose failure is caught and logged by _provision_resources
BestEffort(step) == step = "prime_catalog_linked_database"

\* the exceptions the current call can raise: injected remote failures (a
\* timed-out request may already have taken effect), the refusal above and
\* the errors of the integration system that the step does not absorb
Raisable(mf) == LET s == CurrentCall
                    inj == IF faults < mf /\ CallsRemote(s, cur.existing) THEN {[exc |-> Exc(c, s), injected |-> TRUE, applied |-> a, answer |-> <<>>] : c \in ExcClasses, a \in BOOLEAN} ELSE {}
                    sql == IF faults < mf THEN {[exc |-> Exc(o.does, s), injected |-> TRUE, applied |-> FALSE, answer |-> o.answer] : o \in {x \in StepOutcomes(s) : x.does # "returns" /\ ~(x.does = "SnowflakeIntegrationInUseError" /\ InUseCaught(cur.in_use))}} ELSE {}
                IN  IF BestEffort(s) THEN {}
                    ELSE IF SecretNameTaken(s, cur.existing, cur.nn) THEN {[exc |-> Exc("RuntimeError", s), injected |-> FALSE, applied |-> FALSE, answer |-> <<>>]} \cup {r \in inj : ~r.applied}
                    ELSE IF s = "cleanup_catalog_linked_artifacts" THEN {r \in inj : ~r.applied}
                    ELSE {r \in inj : r.applied => r.exc.cls = "TimeoutError"} \cup sql

built_resources(nn, azure_secret, databricks_secret) == [container_url |-> <<"abfss://">> \o nn \o <<"@">>, managed_identity_id |-> <<"/userAssignedIdentities/">> \o nn, storage_credential_name |-> nn, external_location_name |-> nn, catalog_name |-> nn, group_name |-> nn \o <<"-", "r", "w">>, service_principal_app_id |-> <<"appId:">> \o nn, service_principal_client_secret |-> azure_secret, databricks_oauth_client_secret |-> databricks_secret, snowflake_external_volume_name |-> Upper(nn), snowflake_catalog_integration_name |-> Upper(nn), snowflake_database_name |-> nn \o <<"_linked_db">>, created_at |-> utcnow]

\* create_datasource up to the call of _provision_resources
CreateBegin(name, mc) == /\ cur.pc \in {"idle", "done"}
                         /\ clock.sec < mc
                         /\ clock' = [clock EXCEPT !.sec = @ + 1]
                         /\ prev' = IF cur.pc = "done" THEN Summary(cur) ELSE prev
                         /\ LET call == NewCall("create", name)
                                got == StateGet(call.nn)
                            IN  cur' = IF got.kind = "raise" THEN [call EXCEPT !.pc = "done", !.outcome = "raised", !.err = got.exc]
                                       ELSE IF got.record # <<>> /\ got.record[1].status = "succeeded" THEN [call EXCEPT !.pc = "done", !.outcome = "returned", !.ret = got.record, !.short = TRUE]
                                       ELSE [call EXCEPT !.pc = "provision", !.existing = got.record, !.step = 1, !.attempt = 1]
                         /\ del' = IdleDelete
                         /\ UNCHANGED <<harness, naming, files, remote, minted, faults>>

\* the objects cleanup_catalog_linked_artifacts drops; a statement that fails
\* with a ProgrammingError is only logged, so any of them may be kept
CleanedUp(nn) == {<<nn, "ensure_catalog_linked_database">>, <<nn, "prime_catalog_linked_database">>}

\* one remote call of _provision_resources returns normally, an "already
\* exists" answer of the integration system included
ProvisionStepOk == /\ cur.pc = "provision"
                   /\ cur.step < LastStep
                   /\ LET s == CurrentCall
                          rc == CallsRemote(s, cur.existing)
                          mintA == s = "create_application_secret"
                          mintD == s = "create_service_principal_secret"
                          cleanup == s = "cleanup_catalog_linked_artifacts"
                      IN  /\ ~SecretNameTaken(s, cur.existing, cur.nn)
                          /\ \E kept \in (IF cleanup THEN SUBSET (CleanedUp(cur.nn) \cap remote) ELSE {{}}) :
                               remote' = IF cleanup THEN remote \ (CleanedUp(cur.nn) \ kept) ELSE IF rc THEN remote \cup {<<cur.nn, s>>} ELSE remote
                          /\ minted' = IF rc /\ (mintA \/ mintD) THEN minted + 1 ELSE minted
                          /\ \E answer \in {<<>>} \cup {o.answer : o \in {x \in StepOutcomes(s) : x.does = "returns"}} :
                               cur' = [cur EXCEPT !.step = IF cleanup THEN @ ELSE @ + 1,
                                                  !.in_use = IF cleanup THEN 2 ELSE @,
                                                  !.remote_called = @ \/ rc,
                                                  !.calls = IF rc THEN Append(AttemptCalls, Answered(s, TRUE, answer)) ELSE AttemptCalls,
                                                  !.azure_secret = IF mintA THEN (IF rc THEN minted + 1 ELSE cached_azure_secret(cur.existing)) ELSE @,
                                                  !.databricks_secret = IF mintD THEN (IF rc THEN minted + 1 ELSE cached_databricks_secret(cur.existing)) ELSE @,
                                                  !.azure_mints = IF mintA /\ rc THEN @ + 1 ELSE @,
                                                  !.databricks_mints = IF mintD /\ rc THEN @ + 1 ELSE @]
                   /\ UNCHANGED <<harness, naming, clock, files, faults, del, prev>>

\* ensure_catalog_integration reports that the integration is in use and
\* the except branch of _provision_resources takes over: the cleanup of the
\* linked artifacts and a second call of ensure_catalog_integration follow
IntegrationInUse(mf) == /\ cur.pc = "provision"
                        /\ CurrentCall = "ensure_catalog_integration"
                        /\ InUseCaught(cur.in_use)
                        /\ faults < mf
                        /\ faults' = faults + 1
                        /\ \E o \in {x \in StepOutcomes("ensure_catalog_integration") : x.does = "SnowflakeIntegrationInUseError"} :
                             cur' = [cur EXCEPT !.in_use = 1, !.remote_called = TRUE, !.injected = @ + 1, !.calls = Append(AttemptCalls, Answered("ensure_catalog_integration", FALSE, o.answer))]
                        /\ UNCHANGED <<harness, naming, clock, files, remote, minted, del, prev>>

\* the last step (best-effort priming, whose failure is only logged), then
\* the record is assembled, marked succeeded, saved and returned
CreateSucceed(prime_fails, mf) == /\ cur.pc = "provision"
                                  /\ cur.step = LastStep
                                  /\ prime_fails => (faults < mf /\ BestEffort(CreateSteps[LastStep]))
                                  /\ faults' = IF prime_fails THEN faults + 1 ELSE faults
                                  /\ remote' = IF prime_fails THEN remote ELSE remote \cup {<<cur.nn, CreateSteps[LastStep]>>}
                                  /\ LET record == mark_succeeded(DatasourceRecord(DatasourceRequest(cur.name), built_resources(cur.nn, cur.azure_secret, cur.databricks_secret)))
                                     IN  /\ files' = StateSave(record)
                                         /\ cur' = [cur EXCEPT !.pc = "done", !.remote_called = TRUE, !.log = Append(@, "ok"), !.saves = @ + 1, !.injected = IF prime_fails THEN @ + 1 ELSE @, !.outcome = "returned", !.ret = <<record>>, !.calls = Append(AttemptCalls, Invoked(CreateSteps[LastStep], ~prime_fails))]
                                  /\ UNCHANGED <<harness, naming, clock, minted, del, prev>>

\* the remote world after a step raised
RemoteAfter(r) == IF r.applied THEN remote \cup {<<cur.nn, CurrentCall>>} ELSE remote

\* a step raises and the retry wrapper sleeps, then runs the sequence again
ProvisionRetry(mf) == /\ cur.pc = "provision"
                      /\ \E r \in Raisable(mf) :
                            /\ ShouldRetry(r.exc, cur.attempt)
                            /\ remote' = RemoteAfter(r)
                            /\ faults' = IF r.injected THEN faults + 1 ELSE faults
                            /\ cur' = [cur EXCEPT !.step = 1, !.in_use = 0, !.attempt = @ + 1, !.remote_called = TRUE, !.log = Append(@, r.exc.cls), !.sleeps = Append(@, WaitExponential(cur.attempt)), !.injected = IF r.injected THEN @ + 1 ELSE @, !.calls = Append(AttemptCalls, Answered(CurrentCall, FALSE, r.answer))]
                      /\ UNCHANGED <<harness, naming, clock, files, minted, del, prev>>

\* a step raises and the wrapper re-raises: the except branch of
\* create_datasource saves a failed record and raises again
CreateFail(mf) == /\ cur.pc = "provision"
                  /\ \E r \in Raisable(mf) :
                        /\ ~ShouldRetry(r.exc, cur.attempt)
                        /\ remote' = RemoteAfter(r)
                        /\ faults' = IF r.injected THEN faults + 1 ELSE faults
                        /\ LET resources == IF cur.existing # <<>> THEN cur.existing[1].resources ELSE empty_resources
                               record == mark_failed(DatasourceRecord(DatasourceRequest(cur.name), resources), r.exc)
                           IN  /\ files' = StateSave(record)
                               /\ cur' = [cur EXCEPT !.pc = "done", !.remote_called = TRUE, !.log = Append(@, r.exc.cls), !.saves = @ + 1, !.injected = IF r.injected THEN @ + 1 ELSE @, !.outcome = "raised", !.err = <<r.exc>>, !.calls = Append(AttemptCalls, Answered(CurrentCall, FALSE, r.answer))]
                  /\ UNCHANGED <<harness, naming, clock, minted, del, prev>>

(***************************************************************************)
(* delete_datasource                                                       *)
(***************************************************************************)
RECURSIVE TakeUntil(_, _)
TakeUntil(s, stops) == IF s = <<>> \/ Head(s) \in stops THEN <<>> ELSE <<Head(s)>> \o TakeUntil(Tail(s), stops)

\* DatasourceAutomationService._extract_container_name
extract_container_name(container_url) == IF container_url = <<>> THEN <<>> ELSE TakeUntil(IF Head(container_url) = "abfss://" THEN Tail(container_url) ELSE container_url, {"@", "/"})

\* DatasourceAutomationService._extract_identity_name
extract_identity_name(resource_id, fallback) == IF resource_id # <<>> THEN (IF Head(resource_id) = "/userAssignedIdentities/" THEN Tail(resource_id) ELSE resource_id) ELSE fallback

EndsWith(s, suffix) == Len(s) >= Len(suffix) /\ SubSeq(s, Len(s) - Len(suffix) + 1, Len(s)) = suffix

\* DatasourceAutomationService._derive_ro_group_name
derive_ro_group_name(rw_group_name, fallback_base) == (IF EndsWith(rw_group_name, <<"-", "r", "w">>) \/ EndsWith(rw_group_name, <<"_", "r", "w">>) THEN SubSeq(rw_group_name, 1, Len(rw_group_name) - 3) ELSE fallback_base) \o <<"-", "r", "o">>

\* a remote object of that kind exists for that name
Exists(key, kind) == <<key, kind>> \in remote

\* IdentityProvisioner.resolve_application_app_id
resolve_application_app_id(name) == IF Exists(name, "ensure_application") THEN <<"appId:">> \o name ELSE <<>>

\* DatasourceAutomationService._inferred_resources; the application lookup is
\* best effort
inferred_resources(nn, lookup_fails) == [container_url |-> <<"abfss://">> \o nn \o <<"@">>, managed_identity_id |-> <<"/userAssignedIdentities/">> \o nn, storage_credential_name |-> nn, external_location_name |-> nn, catalog_name |-> nn, group_name |-> nn \o <<"-", "r", "w">>, service_principal_app_id |-> IF lookup_fails THEN <<>> ELSE resolve_application_app_id(nn), service_principal_client_secret |-> 0, databricks_oauth_client_secret |-> 0, snowflake_external_volume_name |-> nn, snowflake_catalog_integration_name |-> nn, snowflake_database_name |-> nn \o <<"_linked_db">>, created_at |-> utcnow]

\* DatasourceAutomationService._build_inferred_record
build_inferred_record(nn, lookup_fails) == DatasourceRecord(DatasourceRequest(nn), inferred_resources(nn, lookup_fails))

Found(record, key) == [kind |-> "ok", exc |-> <<>>, record |-> <<record>>, state_key |-> key, state_exists |-> TRUE]

\* DatasourceAutomationService._find_state_record with StateStore.list_records:
\* the possible results (the order of the directory scan is not fixed)
find_state_record(original_name, normalized_name, lookup_fails) == LET g1 == StateGet(normalized_name)
                                                                        g2 == StateGet(original_name)
                                                                        raise(g) == {[kind |-> "raise", exc |-> g.exc, record |-> <<>>, state_key |-> <<>>, state_exists |-> FALSE]}
                                                                        listed == {json_to_record(files[p]) : p \in DOMAIN files}
                                                                        matching == {l \in listed : l.kind = "ok" /\ normalize_name(l.record[1].request.name) = normalized_name}
                                                                    IN  IF g1.kind = "raise" THEN raise(g1)
                                                                        ELSE IF g1.record # <<>> THEN {Found(g1.record[1], normalized_name)}
                                                                        ELSE IF g2.kind = "raise" THEN raise(g2)
                                                                        ELSE IF g2.record # <<>> THEN {Found(g2.record[1], original_name)}
                                                                        ELSE IF \E l \in listed : l.kind = "raise" THEN {[kind |-> "raise", exc |-> l.exc, record |-> <<>>, state_key |-> <<>>, state_exists |-> FALSE] : l \in {x \in listed : x.kind = "raise"}}
                                                                        ELSE IF matching # {} THEN {Found(l.record[1], l.record[1].request.name) : l \in matching}
                                                                        ELSE {[kind |-> "ok", exc |-> <<>>, record |-> <<build_inferred_record(normalized_name, lookup_fails)>>, state_key |-> normalized_name, state_exists |-> FALSE]}

\* a record for this datasource is in the store: under the normalized key,
\* under the raw key, or under a name that normalizes to the same name
StoredFor(original_name, normalized_name) == \/ StateExists(normalized_name)
                                             \/ StateExists(original_name)
                                             \/ \E p \in DOMAIN files : normalize_name(files[p].request.name) = normalized_name

\* the names delete_datasource derives from the record (lines 290-296 and
\* _delete_snowflake_resources)
DeleteNames(resources, nn) == [container_name |-> IF extract_container_name(resources.container_url) # <<>> THEN extract_container_name(resources.container_url) ELSE nn,
                               identity_name |-> extract_identity_name(resources.managed_identity_id, nn),
                               storage_credential_name |-> IF resources.storage_credential_name # <<>> THEN resources.storage_credential_name ELSE nn,
                               external_location_name |-> IF resources.external_location_name # <<>> THEN resources.external_location_name ELSE nn,
                               catalog_name |-> IF resources.catalog_name # <<>> THEN resources.catalog_name ELSE nn,
                               rw_group_name |-> IF resources.group_name # <<>> THEN resources.group_name ELSE nn \o <<"-", "r", "w">>,
                               ro_group_name |-> derive_ro_group_name(IF resources.group_name # <<>> THEN resources.group_name ELSE nn \o <<"-", "r", "w">>, nn),
                               app_id |-> resources.service_principal_app_id,
                               managed_identity_id |-> resources.managed_identity_id,
                               external_volume_name |-> IF resources.snowflake_external_volume_name # <<>> THEN resources.snowflake_external_volume_name ELSE nn,
                               catalog_integration_name |-> IF resources.snowflake_catalog_integration_name # <<>> THEN resources.snowflake_catalog_integration_name ELSE nn,
                               database_name |-> IF resources.snowflake_database_name # <<>> THEN resources.snowflake_database_name ELSE nn \o <<"_linked_db">>,
                               nn |-> nn]

\* the datasource an application id, a group name or a database name belongs to
AppKey(app_id) == IF app_id # <<>> /\ Head(app_id) = "appId:" THEN Tail(app_id) ELSE app_id

GroupKey(group_name) == IF Len(group_name) >= 3 THEN SubSeq(group_name, 1, Len(group_name) - 3) ELSE group_name

DatabaseKey(database_name) == Lower(IF database_name # <<>> /\ database_name[Len(database_name)] = "_linked_db" THEN SubSeq(database_name, 1, Len(database_name) - 1) ELSE database_name)

\* the remote objects one teardown step removes
Removes(label, n) == CASE label = "drop_database" -> {<<DatabaseKey(n.database_name), k>> : k \in {"ensure_catalog_linked_database", "prime_catalog_linked_database"}}
                       [] label = "drop_catalog_integration" -> {<<Lower(n.catalog_integration_name), "ensure_catalog_integration">>}
                       [] label = "drop_external_volume" -> {<<Lower(n.external_volume_name), "ensure_external_volume">>}
                       [] label = "delete_catalog" -> {<<n.catalog_name, k>> : k \in {"ensure_catalog", "grant_catalog_privileges_all"}}
                       [] label = "delete_external_location" -> {<<n.external_location_name, "ensure_external_location">>}
                       [] label = "delete_storage_credential" -> {<<n.storage_credential_name, "ensure_storage_credential">>}
                       [] label = "remove_rw_membership_sp" -> {<<GroupKey(n.rw_group_name), "add_service_principal_to_group">>}
                       [] label = "delete_group_rw" -> {<<GroupKey(n.rw_group_name), "databricks_ensure_group">>}
                       [] label = "delete_workspace_sp" -> {<<AppKey(n.app_id), "ensure_workspace_service_principal">>}
                       [] label = "delete_account_sp" -> {<<AppKey(n.app_id), k>> : k \in {"ensure_account_service_principal", "create_service_principal_secret"}}
                       [] label = "delete_identity_account_sp" -> {<<n.identity_name, "ensure_account_service_principal_identity">>}
                       [] label = "delete_group" -> {<<n.nn, k>> : k \in {"ensure_group", "add_group_member"}}
                       [] label = "delete_service_principal" -> {<<AppKey(n.app_id), "ensure_service_principal">>}
                       [] label = "delete_application" -> {<<n.nn, k>> : k \in {"ensure_application", "create_application_secret"}}
                       [] label = "identity_role_assignment" -> {<<n.identity_name, "ensure_storage_account_role_assignment_identity">>}
                       [] label = "service_principal_role_assignment" -> {<<AppKey(n.app_id), "ensure_storage_account_role_assignment_sp">>}
                       [] label = "detach_identity" -> {<<extract_identity_name(n.managed_identity_id, n.nn), "attach_identity_to_access_connector">>}
                       [] label = "delete_identity" -> {<<n.identity_name, "ensure_user_assigned_identity">>}
                       [] label = "delete_container" -> {<<n.container_name, "ensure_container">>}
                       [] label = "delete_table[extra.t1]" -> {<<n.catalog_name, "table extra.t1">>}
                       [] label = "delete_table[extra.t2]" -> {<<n.catalog_name, "table extra.t2">>}
                       [] label = "delete_schema[extra]" -> {<<n.catalog_name, "schema extra">>}
                       [] label = "delete_schema[default_schema]" -> {<<n.catalog_name, "prime_catalog_linked_database">>}
                       [] OTHER -> {}

RemovedBy(labels, n) == UNION {Removes(l, n) : l \in labels}

\* the names of the record being deleted
CurNames == DeleteNames(del.record[1].resources, cur.nn)

\* the DatasourceDeletionResult returned by delete_datasource
DeletionResult(d, state_deleted) == [input_name |-> cur.name, normalized_name |-> cur.nn, state_record_name |-> d.record[1].request.name, state_deleted |-> state_deleted, state_found |-> d.state_exists, azure |-> "azure" \notin d.failed, identity |-> "identity" \notin d.failed, databricks |-> "databricks" \notin d.failed, snowflake |-> "snowflake" \notin d.failed]

\* no remote object of the datasource exists
AlreadyAbsent(nn) == ~\E o \in remote : o[1] = nn

\* delete_datasource up to the resolution of the record
DeleteBegin(name, mc, mf) == /\ cur.pc \in {"idle", "done"}
                             /\ clock.sec < mc
                             /\ clock' = [clock EXCEPT !.sec = @ + 1]
                             /\ prev' = IF cur.pc = "done" THEN Summary(cur) ELSE prev
                             /\ \E lookup_fails \in BOOLEAN :
                                  /\ faults' = IF lookup_fails THEN faults + 1 ELSE faults
                                  /\ \E found \in find_state_record(name, normalize_name(name), lookup_fails) :
                                       /\ lookup_fails => (faults < mf /\ found.kind = "ok" /\ ~found.state_exists)
                                       /\ LET call == [NewCall("delete", name) EXCEPT !.injected = IF lookup_fails THEN 1 ELSE 0, !.remote_called = ~found.state_exists /\ found.kind = "ok"]
                                          IN  IF found.kind = "raise"
                                              THEN /\ cur' = [call EXCEPT !.pc = "done", !.outcome = "raised", !.err = found.exc]
                                                   /\ del' = [IdleDelete EXCEPT !.pc = "raised", !.stored = StoredFor(name, call.nn), !.files0 = files, !.absent0 = AlreadyAbsent(call.nn)]
                                              ELSE /\ cur' = [call EXCEPT !.pc = "delete"]
                                                   /\ del' = [IdleDelete EXCEPT !.pc = "lookups", !.record = found.record, !.state_key = found.state_key, !.state_exists = found.state_exists, !.stored = StoredFor(name, call.nn), !.files0 = files, !.absent0 = AlreadyAbsent(call.nn)]
                             /\ UNCHANGED <<harness, naming, files, remote, minted>>

\* the guarded lookups of the managed identity and of the service principal
DeleteLookups(identity_fails, sp_fails, mf) == /\ cur.pc = "delete"
                                               /\ del.pc = "lookups"
                                               /\ LET n == CurNames
                                                      k == (IF identity_fails THEN 1 ELSE 0) + (IF sp_fails THEN 1 ELSE 0)
                                                  IN  /\ identity_fails => n.identity_name # <<>>
                                                      /\ sp_fails => n.app_id # <<>>
                                                      /\ faults + k <= mf
                                                      /\ faults' = faults + k
                                                      /\ cur' = [cur EXCEPT !.remote_called = TRUE, !.injected = @ + k]
                                                      /\ del' = [del EXCEPT !.pc = "snowflake",
                                                                            !.identity_info = n.identity_name # <<>> /\ ~identity_fails /\ Exists(n.identity_name, "ensure_user_assigned_identity"),
                                                                            !.identity_lookup_error = identity_fails,
                                                                            !.service_principal_info = n.app_id # <<>> /\ ~sp_fails /\ Exists(AppKey(n.app_id), "ensure_service_principal"),
                                                                            !.service_principal_lookup_error = sp_fails]
                                               /\ UNCHANGED <<harness, naming, clock, files, remote, minted, prev>>

\* SnowflakeProvisioner.drop_objects, in program order
SnowflakeSteps == <<"drop_database", "drop_catalog_integration", "drop_external_volume">>

\* _delete_snowflake_resources: drop_objects runs inside one try block, so the
\* statement that raises (fail_at, 0 for none) ends the teardown
DeleteSnowflake(fail_at, mf) == /\ cur.pc = "delete"
                                /\ del.pc = "snowflake"
                                /\ fail_at > 0 => faults < mf
                                /\ faults' = IF fail_at > 0 THEN faults + 1 ELSE faults
                                /\ LET done == {SnowflakeSteps[i] : i \in {j \in 1..Len(SnowflakeSteps) : fail_at = 0 \/ j < fail_at}}
                                   IN  remote' = remote \ RemovedBy(done, CurNames)
                                /\ cur' = [cur EXCEPT !.remote_called = TRUE, !.injected = IF fail_at > 0 THEN @ + 1 ELSE @]
                                /\ del' = [del EXCEPT !.pc = "databricks", !.attempted = @ \cup {"snowflake"}, !.failed = IF fail_at > 0 THEN @ \cup {"snowflake"} ELSE @,
                                                      !.calls = @ \o SubSeq(SnowflakeSteps, 1, IF fail_at > 0 THEN fail_at ELSE Len(SnowflakeSteps)),
                                                      !.errors = IF fail_at > 0 THEN @ \cup {SnowflakeSteps[fail_at]} ELSE @]
                                /\ UNCHANGED <<harness, naming, clock, files, minted, prev>>

\* the schemas a listing of the catalog may hold, in the order of the listing
CatalogSchemas == <<"INFORMATION_SCHEMA", "default_schema", "extra">>

\* the tables a listing of a schema may hold, in the order of the listing
SchemaTables(schema) == CASE schema = "default_schema" -> <<"test_table">> [] schema = "extra" -> <<"t1", "t2">> [] OTHER -> <<>>

\* the remote object behind a schema: the information schema comes with the
\* catalog, the default schema and its table with the priming
SchemaObject(catalog, schema) == <<catalog, CASE schema = "INFORMATION_SCHEMA" -> "ensure_catalog" [] schema = "default_schema" -> "prime_catalog_linked_database" [] OTHER -> "schema " \o schema>>

\* the remote object behind a table
TableObject(catalog, schema, table) == <<catalog, IF schema = "default_schema" THEN "prime_catalog_linked_database" ELSE "table " \o schema \o "." \o table>>

\* DatabricksProvisioner.list_schemas and list_tables on a successful answer
list_schemas(catalog) == SelectSeq(CatalogSchemas, LAMBDA schema : SchemaObject(catalog, schema) \in remote)

list_tables(catalog, schema) == SelectSeq(SchemaTables(schema), LAMBDA table : TableObject(catalog, schema, table) \in remote)

\* the labels of the calls about one schema and one table; the catalog part
\* of the full names, the same in all of them, is left out
ListTablesLabel(schema) == "list_tables(" \o schema \o ")"

DeleteTableLabel(schema, table) == "delete_table[" \o schema \o "." \o table \o "]"

DeleteSchemaLabel(schema) == "delete_schema[" \o schema \o "]"

\* the schemas of a listing that the loop does not skip
Deletable(schemas) == SelectSeq(schemas, LAMBDA schema : schema # "INFORMATION_SCHEMA")

\* the list_tables calls of the loop over the listed schemas
ListTablesCalls(catalog) == [i \in 1..Len(Deletable(list_schemas(catalog))) |-> ListTablesLabel(Deletable(list_schemas(catalog))[i])]

\* a loop body that collects the schema before its tables
SchemaSteps_SchemaFirst(catalog, schema, failing) == <<DeleteSchemaLabel(schema)>> \o (IF ListTablesLabel(schema) \in failing THEN <<>> ELSE [i \in 1..Len(list_tables(catalog, schema)) |-> DeleteTableLabel(schema, list_tables(catalog, schema)[i])])

\* the steps the loop collects for one schema: its tables, then the schema
SchemaSteps(catalog, schema, failing) == (IF ListTablesLabel(schema) \in failing THEN <<>> ELSE [i \in 1..Len(list_tables(catalog, schema)) |-> DeleteTableLabel(schema, list_tables(catalog, schema)[i])]) \o <<DeleteSchemaLabel(schema)>>

\* the loop over the listed schemas
RECURSIVE SchemaLoop(_, _, _)
SchemaLoop(catalog, schemas, failing) == IF schemas = <<>> THEN <<>> ELSE (IF Head(schemas) = "INFORMATION_SCHEMA" THEN <<>> ELSE SchemaSteps(catalog, Head(schemas), failing)) \o SchemaLoop(catalog, Tail(schemas), failing)

\* the labels of every call about a schema or a table
SchemaLabels == UNION {{ListTablesLabel(CatalogSchemas[i]), DeleteSchemaLabel(CatalogSchemas[i])} \cup {DeleteTableLabel(CatalogSchemas[i], SchemaTables(CatalogSchemas[i])[j]) : j \in 1..Len(SchemaTables(CatalogSchemas[i]))} : i \in 2..Len(CatalogSchemas)}

\* the cleanup steps _delete_databricks_resources collects, given the lookups
DatabricksSteps(n, identity_info, failing) == LET rw_group == Exists(GroupKey(n.rw_group_name), "databricks_ensure_group")
                                                  ro_group == Exists(GroupKey(n.ro_group_name), "databricks_ensure_group")
                                                  account_sp == n.app_id # <<>> /\ Exists(AppKey(n.app_id), "ensure_account_service_principal")
                                                  workspace_sp == n.app_id # <<>> /\ Exists(AppKey(n.app_id), "ensure_workspace_service_principal")
                                                  identity_account_sp == identity_info /\ Exists(n.identity_name, "ensure_account_service_principal_identity")
                                                  identity_workspace_sp == identity_info /\ Exists(n.identity_name, "ensure_workspace_service_principal_identity")
                                              IN  (IF "list_schemas" \in failing THEN <<>> ELSE SchemaLoop(n.catalog_name, list_schemas(n.catalog_name), failing))
                                                  \o <<"delete_catalog", "delete_external_location", "delete_storage_credential">>
                                                  \o (IF rw_group /\ account_sp THEN <<"remove_rw_membership_sp">> ELSE <<>>)
                                                  \o (IF ro_group /\ account_sp THEN <<"remove_ro_membership_sp">> ELSE <<>>)
                                                  \o (IF identity_account_sp /\ rw_group THEN <<"remove_rw_membership_identity">> ELSE <<>>)
                                                  \o (IF identity_account_sp /\ ro_group THEN <<"remove_ro_membership_identity">> ELSE <<>>)
                                                  \o (IF rw_group THEN <<"delete_group_rw">> ELSE <<>>)
                                                  \o (IF ro_group THEN <<"delete_group_ro">> ELSE <<>>)
                                                  \o (IF workspace_sp THEN <<"delete_workspace_sp">> ELSE <<>>)
                                                  \o (IF account_sp THEN <<"delete_account_sp">> ELSE <<>>)
                                                  \o (IF identity_workspace_sp /\ identity_info THEN <<"delete_identity_workspace_sp">> ELSE <<>>)
                                                  \o (IF identity_account_sp /\ identity_info THEN <<"delete_identity_account_sp">> ELSE <<>>)

Range(s) == {s[i] : i \in 1..Len(s)}

\* the calls of _delete_databricks_resources that may fail inside a try block
DatabricksGuarded == SchemaLabels \cup {"list_schemas", "delete_catalog", "delete_external_location", "delete_storage_credential", "remove_rw_membership_sp", "remove_ro_membership_sp", "remove_rw_membership_identity", "remove_ro_membership_identity", "delete_group_rw", "delete_group_ro", "delete_workspace_sp", "delete_account_sp", "delete_identity_workspace_sp", "delete_identity_account_sp"}

\* the sets of at most k members of s
UpTo(s, k) == IF k <= 0 THEN {{}} ELSE IF k = 1 THEN {{}} \cup {{x} : x \in s} ELSE {t \in SUBSET s : Cardinality(t) <= k}

\* the status of the workspace's answer to GET /unity-catalog/schemas for a
\* catalog: a listing, or for a catalog that does not exist either an empty
\* listing or a not-found response
list_schemas_responses(catalog_name) == IF Exists(catalog_name, "ensure_catalog") THEN {200} ELSE {200, 404}

\* _paginate_workspace: raise_for_status() raises on every answer that is
\* not a success, a not-found answer included
paginate_workspace_raises(status) == status >= 400

\* _delete_databricks_resources: the group and service-principal lookups at
\* its start are outside every try block, the collected steps are inside one
DeleteDatabricks(lookup_fails, mf) == /\ cur.pc = "delete"
                                      /\ del.pc = "databricks"
                                      /\ lookup_fails => faults < mf
                                      /\ IF lookup_fails
                                         THEN /\ faults' = faults + 1
                                              /\ remote' = remote
                                              /\ cur' = [cur EXCEPT !.pc = "done", !.remote_called = TRUE, !.injected = @ + 1, !.outcome = "raised", !.err = <<Exc("RuntimeError", "get_account_group")>>]
                                              /\ del' = [del EXCEPT !.pc = "raised", !.attempted = @ \cup {"databricks"}, !.calls = Append(@, "get_account_group")]
                                         ELSE \E failing \in UpTo(DatabricksGuarded, mf - faults), status \in list_schemas_responses(CurNames.catalog_name) :
                                                LET raised == failing \cup (IF paginate_workspace_raises(status) THEN {"list_schemas"} ELSE {})
                                                    steps == DatabricksSteps(CurNames, del.identity_info, raised)
                                                    errors == raised \cap (Range(steps) \cup {"list_schemas"} \cup (IF "list_schemas" \notin raised THEN Range(ListTablesCalls(CurNames.catalog_name)) ELSE {}))
                                                IN  /\ paginate_workspace_raises(status) => "list_schemas" \notin failing
                                                    /\ errors = raised
                                                    /\ faults' = faults + Cardinality(failing)
                                                    /\ remote' = remote \ RemovedBy(Range(steps) \ raised, CurNames)
                                                    /\ cur' = [cur EXCEPT !.remote_called = TRUE, !.injected = @ + Cardinality(failing)]
                                                    /\ del' = [del EXCEPT !.pc = "identity", !.attempted = @ \cup {"databricks"}, !.failed = IF errors # {} THEN @ \cup {"databricks"} ELSE @,
                                                                          !.calls = @ \o <<"list_schemas">> \o (IF "list_schemas" \notin raised THEN ListTablesCalls(CurNames.catalog_name) ELSE <<>>) \o steps,
                                                                          !.errors = @ \cup errors]
                                      /\ UNCHANGED <<harness, naming, clock, files, minted, prev>>

\* the calls of _delete_identity_resources, each in its own try block
IdentitySteps(n) == LET resolved_app_id == IF n.app_id # <<>> THEN n.app_id ELSE resolve_application_app_id(n.nn)
                    IN  <<"delete_group">> \o (IF resolved_app_id # <<>> THEN <<"delete_service_principal">> ELSE <<>>) \o <<"delete_application">>

\* _delete_identity_resources
DeleteIdentity(mf) == /\ cur.pc = "delete"
                      /\ del.pc = "identity"
                      /\ \E failing \in UpTo(Range(IdentitySteps(CurNames)), mf - faults) :
                            /\ faults' = faults + Cardinality(failing)
                            /\ remote' = remote \ RemovedBy(Range(IdentitySteps(CurNames)) \ failing, [CurNames EXCEPT !.app_id = IF @ # <<>> THEN @ ELSE resolve_application_app_id(CurNames.nn)])
                            /\ cur' = [cur EXCEPT !.remote_called = TRUE, !.injected = @ + Cardinality(failing)]
                            /\ del' = [del EXCEPT !.pc = "azure", !.attempted = @ \cup {"identity"}, !.failed = IF failing # {} THEN @ \cup {"identity"} ELSE @,
                                                  !.calls = @ \o IdentitySteps(CurNames), !.errors = @ \cup failing]
                      /\ UNCHANGED <<harness, naming, clock, files, minted, prev>>

\* the calls of _delete_azure_resources, each in its own try block
AzureSteps(n, identity_info, service_principal_info) == (IF identity_info THEN <<"identity_role_assignment">> ELSE <<>>)
                                                        \o (IF service_principal_info THEN <<"service_principal_role_assignment">> ELSE <<>>)
                                                        \o (IF n.managed_identity_id # <<>> THEN <<"detach_identity">> ELSE <<>>)
                                                        \o (IF n.identity_name # <<>> THEN <<"delete_identity">> ELSE <<>>)
                                                        \o <<"delete_container">>

\* StateStore.delete(key): the store without the file, and whether it existed
StateDelete(key) == [files |-> [p \in DOMAIN files \ {path_for(key)} |-> files[p]], deleted |-> StateExists(key)]

\* _delete_azure_resources, then the end of delete_datasource: the state
\* record is removed only when every outcome succeeded
DeleteAzure(mf) == /\ cur.pc = "delete"
                   /\ del.pc = "azure"
                   /\ \E failing \in UpTo(Range(AzureSteps(CurNames, del.identity_info, del.service_principal_info)), mf - faults) :
                         LET steps == AzureSteps(CurNames, del.identity_info, del.service_principal_info)
                             errors == failing \cup (IF del.identity_lookup_error THEN {"identity_lookup"} ELSE {}) \cup (IF del.service_principal_lookup_error THEN {"service_principal_lookup"} ELSE {})
                             failed == IF errors # {} THEN del.failed \cup {"azure"} ELSE del.failed
                             removal == StateDelete(del.state_key)
                             state_deleted == IF failed = {} THEN (IF del.state_exists THEN removal.deleted ELSE TRUE) ELSE FALSE
                             done == [del EXCEPT !.pc = "returned", !.attempted = @ \cup {"azure"}, !.failed = failed, !.state_deleted = state_deleted, !.calls = @ \o steps, !.errors = @ \cup errors]
                         IN  /\ faults' = faults + Cardinality(failing)
                             /\ remote' = remote \ RemovedBy(Range(steps) \ failing, CurNames)
                             /\ files' = IF failed = {} /\ del.state_exists THEN removal.files ELSE files
                             /\ del' = done
                             /\ cur' = [cur EXCEPT !.pc = "done", !.remote_called = TRUE, !.injected = @ + Cardinality(failing), !.outcome = "returned", !.ret = <<DeletionResult(done, state_deleted)>>]
                   /\ UNCHANGED <<harness, naming, clock, minted, prev>>

(***************************************************************************)
(* The state store used on its own                                         *)
(***************************************************************************)
\* names of the records saved: two of them differ only in "/" against "_"
StoreNames == { <<"a">>, <<"a", "/", "b">>, <<"a", "_", "b">> }

\* a record as the callers of save build it
StoreRecord(name, secret, failed) == LET record == DatasourceRecord(DatasourceRequest(name), built_resources(name, secret, secret))
                                     IN  IF failed THEN mark_failed(record, Exc("RuntimeError", "ensure_container")) ELSE record

\* the records saved: a succeeded one with its secrets, a failed one without
StoreRecords == { StoreRecord(name, 1, FALSE) : name \in StoreNames } \cup { StoreRecord(name, 0, TRUE) : name \in StoreNames }

\* no operation yet; map is the name -> record map the store is meant to be
IdleStore == [op |-> "none", key |-> <<>>, kind |-> "none", ret |-> <<>>, exc |-> <<>>, map |-> <<>>, had |-> FALSE, prior |-> [op |-> "none", key |-> <<>>]]

StoreCall(op, key, kind, ret, exc, map) == [op |-> op, key |-> key, kind |-> kind, ret |-> ret, exc |-> exc, map |-> map, had |-> key \in DOMAIN st.map, prior |-> [op |-> st.op, key |-> st.key]]

\* store.save(record)
StoreSave(record) == /\ files' = StateSave(record)
                     /\ st' = StoreCall("save", record.request.name, "ok", <<>>, <<>>, [k \in DOMAIN st.map \cup {record.request.name} |-> IF k = record.request.name THEN record ELSE st.map[k]])
                     /\ UNCHANGED <<naming, clock, service, wf, nm, cli, th, rq, tk>>

\* store.get(key)
StoreGet(key) == /\ st' = StoreCall("get", key, StateGet(key).kind, StateGet(key).record, StateGet(key).exc, st.map)
                 /\ UNCHANGED <<naming, clock, files, service, wf, nm, cli, th, rq, tk>>

\* store.exists(key)
StoreExists(key) == /\ st' = StoreCall("exists", key, "ok", <<StateExists(key)>>, <<>>, st.map)
                    /\ UNCHANGED <<naming, clock, files, service, wf, nm, cli, th, rq, tk>>

\* store.delete(key)
StoreDelete(key) == /\ files' = StateDelete(key).files
                    /\ st' = StoreCall("delete", key, "ok", <<StateDelete(key).deleted>>, <<>>, [k \in DOMAIN st.map \ {key} |-> st.map[k]])
                    /\ UNCHANGED <<naming, clock, service, wf, nm, cli, th, rq, tk>>

\* store.list_records()
StoreList == /\ st' = StoreCall("list", <<>>, StateList.kind, StateList.records, StateList.exc, st.map)
             /\ UNCHANGED <<naming, clock, files, service, wf, nm, cli, th, rq, tk>>

(***************************************************************************)
(* StateStore.save called from several threads                             *)
(***************************************************************************)
\* the threads of the process that share the store
SaveThreads == {1, 2}

\* save calls one thread makes
MaxSaves == 2

\* the records the threads save: the first two go to the same file
SaveRecords == { StoreRecord(<<"a", "/", "b">>, 1, FALSE), StoreRecord(<<"a", "_", "b">>, 0, TRUE), StoreRecord(<<"a">>, 1, FALSE) }

\* no thread is in save: locked holds the threads that own self._lock, open
\* the threads that have a file open for writing
IdleThreads == [locked |-> {}, open |-> {}, pc |-> [t \in SaveThreads |-> "idle"], record |-> [t \in SaveThreads |-> <<>>], raised |-> [t \in SaveThreads |-> FALSE], outcome |-> [t \in SaveThreads |-> "none"], saves |-> [t \in SaveThreads |-> 0], read |-> [op |-> "none", name |-> <<>>, concurrent |-> FALSE, kind |-> "none", docs |-> {}, exc |-> <<>>]]

\* a file that was opened for writing and has nothing in it yet
EmptyFile == [record_to_json(DatasourceRecord(DatasourceRequest(<<>>), empty_resources)) EXCEPT !.status = ""]

\* a with block that keeps the lock when its body raised
lock_exit_KeepOnRaise(locked, t, raised) == IF raised THEN locked ELSE locked \ {t}

\* Lock.__exit__ at the end of the with block: the lock is released whether
\* the body returned or raised
lock_exit(locked, t, raised) == locked \ {t}

\* save is entered: the path is computed before the lock is taken
SaveEnter(t, record) == /\ th.pc[t] = "idle"
                        /\ th.saves[t] < MaxSaves
                        /\ th' = [th EXCEPT !.pc[t] = "acquire", !.record[t] = <<record>>, !.raised[t] = FALSE, !.saves[t] = @ + 1]
                        /\ UNCHANGED <<naming, clock, files, service, st, wf, nm, cli, rq, tk>>

\* Lock.__enter__: acquire returns once no thread owns the lock
SaveAcquire(t) == /\ th.pc[t] = "acquire"
                  /\ th.locked = {}
                  /\ th' = [th EXCEPT !.locked = @ \cup {t}, !.pc[t] = "locked"]
                  /\ UNCHANGED <<naming, clock, files, service, st, wf, nm, cli, rq, tk>>

\* _record_to_json, then write_text opens the file, which empties it; either
\* may raise
SaveOpen(t, raises) == /\ th.pc[t] = "locked"
                       /\ files' = IF raises THEN files ELSE [p \in DOMAIN files \cup {path_for(th.record[t][1].request.name)} |-> IF p = path_for(th.record[t][1].request.name) THEN EmptyFile ELSE files[p]]
                       /\ th' = IF raises THEN [th EXCEPT !.pc[t] = "exit", !.raised[t] = TRUE] ELSE [th EXCEPT !.pc[t] = "writing", !.open = @ \cup {t}]
                       /\ UNCHANGED <<naming, clock, service, st, wf, nm, cli, rq, tk>>

\* write_text writes the payload and closes the file, or raises
SaveWrite(t, raises) == /\ th.pc[t] = "writing"
                        /\ files' = IF raises THEN files ELSE StateSave(th.record[t][1])
                        /\ th' = [th EXCEPT !.pc[t] = "exit", !.open = @ \ {t}, !.raised[t] = raises]
                        /\ UNCHANGED <<naming, clock, service, st, wf, nm, cli, rq, tk>>

\* the with block is left and save returns or raises
SaveExit(t) == /\ th.pc[t] = "exit"
               /\ th' = [th EXCEPT !.locked = lock_exit(@, t, th.raised[t]), !.pc[t] = "idle", !.outcome[t] = IF th.raised[t] THEN "raised" ELSE "returned"]
               /\ UNCHANGED <<naming, clock, files, service, st, wf, nm, cli, rq, tk>>

\* the steps of a thread inside save
SaveStep(t) == \/ SaveAcquire(t)
               \/ \E raises \in BOOLEAN : SaveOpen(t, raises)
               \/ \E raises \in BOOLEAN : SaveWrite(t, raises)
               \/ SaveExit(t)

\* the saves a thread makes while another thread reads
MaxReadSaves == 1

\* json.loads(path.read_text()) and _json_to_record on one file; a file that a
\* writer has opened and not yet written holds no document
load_file(p) == IF files[p] = EmptyFile THEN [kind |-> "raise", record |-> <<>>, exc |-> <<Exc("JSONDecodeError", "json.loads")>>] ELSE json_to_record(files[p])

\* the threads inside save whose record goes to one of the paths
SavingTo(paths) == {t \in SaveThreads : th.pc[t] # "idle" /\ path_for(th.record[t][1].request.name) \in paths}

\* what a reader that loaded the files at paths comes back with
ReadOutcome(op, name, paths, concurrent) == LET loaded == {load_file(p) : p \in paths}
                                                raised == {l \in loaded : l.kind = "raise"}
                                            IN  IF raised = {} THEN {[op |-> op, name |-> name, concurrent |-> concurrent, kind |-> "ok", docs |-> {files[p] : p \in paths}, exc |-> <<>>]}
                                                ELSE {[op |-> op, name |-> name, concurrent |-> concurrent, kind |-> "raise", docs |-> {}, exc |-> l.exc] : l \in raised}

\* StateStore.get called by a thread of its own: no lock is taken
ReadGet(name) == /\ th.read.op = "none"
                 /\ th' \in {[th EXCEPT !.read = r] : r \in ReadOutcome("get", name, {path_for(name)} \cap DOMAIN files, SavingTo({path_for(name)}) # {})}
                 /\ UNCHANGED <<naming, clock, files, service, st, wf, nm, cli, rq, tk>>

\* StateStore.list_records called by a thread of its own
ReadList == /\ th.read.op = "none"
            /\ th' \in {[th EXCEPT !.read = r] : r \in ReadOutcome("list_records", <<>>, DOMAIN files, SavingTo(DOMAIN files) # {})}
            /\ UNCHANGED <<naming, clock, files, service, st, wf, nm, cli, rq, tk>>

(***************************************************************************)
(* WorkflowRunner                                                          *)
(***************************************************************************)
\* steps of the longest workflow run
MaxSteps == 3

\* WorkflowStep.name of the step at a position of the list
StepName(i) == <<"step", i>>

\* the step lists handed to run: every step has an action, a compensator is
\* optional
Workflows == UNION { { [i \in 1..n |-> [name |-> StepName(i), compensator |-> has[i]]] : has \in [1..n -> BOOLEAN] } : n \in 0..MaxSteps }

\* the context objects handed to run, told apart by identity
Contexts == { [id |-> 1], [id |-> 2] }

IdleWorkflow == [pc |-> "idle", steps |-> <<>>, context |-> [id |-> 0], index |-> 0, executed |-> <<>>, remaining |-> <<>>, failed |-> 0, trace |-> <<>>, outcome |-> "none", ret |-> <<>>, err |-> <<>>]

\* executed, oldest first
Reversed_Forward(s) == s

\* reversed(executed)
RECURSIVE Reversed(_)
Reversed(s) == IF s = <<>> THEN <<>> ELSE Reversed(Tail(s)) \o <<Head(s)>>

\* WorkflowRunner.run is entered: executed = []
WorkflowRun(steps, context) == /\ wf.pc \in {"idle", "done"}
                               /\ wf' = [IdleWorkflow EXCEPT !.pc = "run", !.steps = steps, !.context = context, !.index = 1]
                               /\ UNCHANGED <<naming, clock, files, service, st, nm, cli, th, rq, tk>>

\* one iteration of the loop of run: the action returns and the step joins
\* executed, or it raises and compensation starts
WorkflowAction(raises) == /\ wf.pc = "run"
                          /\ wf.index <= Len(wf.steps)
                          /\ wf' = IF raises
                                   THEN [wf EXCEPT !.pc = "compensate", !.failed = wf.index, !.remaining = Reversed(wf.executed), !.trace = Append(@, [kind |-> "action", step |-> wf.index, raised |-> TRUE])]
                                   ELSE [wf EXCEPT !.index = @ + 1, !.executed = Append(@, wf.index), !.trace = Append(@, [kind |-> "action", step |-> wf.index, raised |-> FALSE])]
                          /\ UNCHANGED <<naming, clock, files, service, st, nm, cli, th, rq, tk>>

\* returns a copy of the context
WorkflowReturn_Copy == /\ wf.pc = "run"
                       /\ wf.index > Len(wf.steps)
                       /\ wf' = [wf EXCEPT !.pc = "done", !.outcome = "returned", !.ret = <<[id |-> wf.context.id + 2]>>]
                       /\ UNCHANGED <<naming, clock, files, service, st, nm, cli, th, rq, tk>>

\* the loop of run is over: return context
WorkflowReturn == /\ wf.pc = "run"
                  /\ wf.index > Len(wf.steps)
                  /\ wf' = [wf EXCEPT !.pc = "done", !.outcome = "returned", !.ret = <<wf.context>>]
                  /\ UNCHANGED <<naming, clock, files, service, st, nm, cli, th, rq, tk>>

\* a compensator that raises ends the loop of _compensate
AfterCompensator_Stop(raises, remaining) == IF raises THEN <<>> ELSE Tail(remaining)

\* the except clause inside the loop of _compensate: the exception of a
\* compensator is logged and the loop goes on with the step before
AfterCompensator(raises, remaining) == Tail(remaining)

\* one iteration of the loop of _compensate: a step without compensator is
\* skipped, a compensator that raises is logged
WorkflowCompensate(raises) == /\ wf.pc = "compensate"
                              /\ wf.remaining # <<>>
                              /\ raises => wf.steps[Head(wf.remaining)].compensator
                              /\ wf' = [wf EXCEPT !.remaining = AfterCompensator(raises, @), !.trace = IF wf.steps[Head(wf.remaining)].compensator THEN Append(@, [kind |-> "compensator", step |-> Head(wf.remaining), raised |-> raises]) ELSE @]
                              /\ UNCHANGED <<naming, clock, files, service, st, nm, cli, th, rq, tk>>

\* _compensate is over: raise WorkflowExecutionError(step.name) from exc
WorkflowRaise == /\ wf.pc = "compensate"
                 /\ wf.remaining = <<>>
                 /\ wf' = [wf EXCEPT !.pc = "done", !.outcome = "raised", !.err = <<[cls |-> "WorkflowExecutionError", args |-> <<wf.steps[wf.failed].name>>]>>]
                 /\ UNCHANGED <<naming, clock, files, service, st, nm, cli, th, rq, tk>>

(***************************************************************************)
(* The naming policy used on its own                                       *)
(***************************************************************************)
\* length of the short raw names
MaxRawLen == 3

\* the characters of the short raw names: lower case, upper case, a digit,
\* the dash, and two characters outside [a-z0-9-]
RawChars == {"a", "B", "1", "-", "/", "!"}

\* s repeated n times
RECURSIVE Repeat(_, _)
Repeat(s, n) == IF n <= 0 THEN <<>> ELSE s \o Repeat(s, n - 1)

\* "My Data/Source!!"
MyDataSource == <<"M", "y", " ", "D", "a", "t", "a", "/", "S", "o", "u", "r", "c", "e", "!", "!">>

\* raw names around the length limit: a run of letters, a dash, a letter
LongNames == { Repeat(<<"a">>, n) \o <<"-", "b">> : n \in (NameLimit - 8)..(NameLimit + 1) }

\* the raw names handed to _normalize_name
NamingRawNames == UNION { [1..n -> RawChars] : n \in 0..MaxRawLen } \cup LongNames \cup {MyDataSource}

\* naming.prefix and naming.separator values (separator: at most one character)
NamingPrefixes == { <<>>, <<"a", "c", "m", "e">> }

NamingSeparators == { <<"-">>, <<"_">>, <<>> }

IdleNaming == [pc |-> "idle", raw |-> <<>>, out |-> <<>>]

\* service._normalize_name(raw_name)
Normalize(raw_name) == /\ nm' = [pc |-> "done", raw |-> raw_name, out |-> normalize_name(raw_name)]
                       /\ UNCHANGED <<naming, clock, files, service, st, wf, cli, th, rq, tk>>

(***************************************************************************)
(* The delete-datasource command                                           *)
(***************************************************************************)
\* the DatasourceDeletionResult values service.delete_datasource can hand to
\* the command (succeeded of each DeletionOutcome)
DeletionResults == [input_name : {<<"a">>}, normalized_name : {<<"a">>}, state_record_name : {<<"a">>}, state_deleted : BOOLEAN, state_found : BOOLEAN, azure : BOOLEAN, identity : BOOLEAN, databricks : BOOLEAN, snowflake : BOOLEAN]

\* classes of the exceptions service.delete_datasource can raise instead
CliExcClasses == {"ValueError", "RuntimeError", "TypeError", "ConnectionError"}

IdleCli == [pc |-> "idle", result |-> <<>>, exc |-> <<>>, exit_code |-> 0, echoed |-> FALSE]

\* the exit code of the command once it has a result
\* checks the state record before the subsystems
delete_exit_code_StateFirst(result) == IF ~result.state_deleted THEN 2
                                       ELSE IF ~(result.azure /\ result.identity /\ result.databricks /\ result.snowflake) THEN 1
                                       ELSE 0

\* main.delete_datasource after the summary is echoed: exit 1 when a
\* subsystem failed, else exit 2 when the state was not deleted, else return
delete_exit_code(result) == IF ~(result.azure /\ result.identity /\ result.databricks /\ result.snowflake) THEN 1
                            ELSE IF ~result.state_deleted THEN 2
                            ELSE 0

\* main.delete_datasource when the service raises: ValueError exits 1,
\* RuntimeError exits 2, any other exception leaves the command uncaught and
\* the interpreter exits 1
raise_exit_code(cls) == IF cls = "ValueError" THEN 1 ELSE IF cls = "RuntimeError" THEN 2 ELSE 1

\* the command runs with a service that returns result
DeleteCommandReturns(result) == /\ cli' = [pc |-> "done", result |-> <<result>>, exc |-> <<>>, exit_code |-> delete_exit_code(result), echoed |-> TRUE]
                                /\ UNCHANGED <<naming, clock, files, service, st, wf, nm, th, rq, tk>>

\* the command runs with a service that raises
DeleteCommandRaises(cls) == /\ cli' = [pc |-> "done", result |-> <<>>, exc |-> <<cls>>, exit_code |-> raise_exit_code(cls), echoed |-> FALSE]
                            /\ UNCHANGED <<naming, clock, files, service, st, wf, nm, th, rq, tk>>

(***************************************************************************)
(* DatabricksProvisioner: creation requests under propagation delays       *)
(***************************************************************************)
\* max_attempts of ensure_storage_credential and ensure_external_location
MaxAttempts == 5

\* the first wait of ensure_storage_credential and the cap of both waits
FirstBackoff == 5

BackoffCap == 60

\* the wait of ensure_external_location grows by this much per attempt
BackoffStep == 5

\* the answers of the workspace to a creation request: the status, whether
\* the body is a JSON object, its error_code and the phrases of its message
CreationResponses == { [status |-> 201, json |-> TRUE, error_code |-> "", message |-> {}],
                       [status |-> 409, json |-> TRUE, error_code |-> "RESOURCE_ALREADY_EXISTS", message |-> {}],
                       [status |-> 400, json |-> TRUE, error_code |-> "EXTERNAL_LOCATION_ALREADY_EXISTS", message |-> {}],
                       [status |-> 404, json |-> TRUE, error_code |-> "", message |-> {"was not found in the directory"}],
                       [status |-> 404, json |-> FALSE, error_code |-> "", message |-> {"AADSTS700016"}],
                       [status |-> 404, json |-> TRUE, error_code |-> "", message |-> {}],
                       [status |-> 403, json |-> TRUE, error_code |-> "", message |-> {"Not authorized"}],
                       [status |-> 403, json |-> TRUE, error_code |-> "", message |-> {"managed identity does not have"}],
                       [status |-> 403, json |-> FALSE, error_code |-> "", message |-> {"validate_credential"}],
                       [status |-> 403, json |-> TRUE, error_code |-> "", message |-> {}],
                       [status |-> 500, json |-> TRUE, error_code |-> "", message |-> {"was not found in the directory", "not authorized"}] }

\* the answers to the GET that follows a 409 in ensure_storage_credential
LookupStatuses == {200, 403}

\* str.lower() on the phrases of a message
LowerMessage(message) == {IF phrase = "Not authorized" THEN "not authorized" ELSE phrase : phrase \in message}

\* _should_retry_storage_credential looking at the message alone
should_retry_storage_credential_AnyStatus(status_code, error_body) == \E indicator \in {"AADSTS700016", "was not found in the directory"} : indicator \in error_body.message

\* DatabricksProvisioner._should_retry_storage_credential
should_retry_storage_credential(status_code, error_body) == status_code = 404 /\ \E indicator \in {"AADSTS700016", "was not found in the directory"} : indicator \in error_body.message

\* DatabricksProvisioner._should_retry_external_location
should_retry_external_location(body) == body.json /\ \E phrase \in {"not authorized", "managed identity does not have", "validate_credential"} : phrase \in LowerMessage(body.message)

\* one pass of the loop of ensure_storage_credential
storage_credential_pass(response, attempt) == IF response.status = 409 THEN "lookup"
                                              ELSE IF response.status < 400 THEN "return"
                                              ELSE IF should_retry_storage_credential(response.status, response) /\ attempt < MaxAttempts THEN "retry"
                                              ELSE "raise"

\* one pass of the loop of ensure_external_location
external_location_pass(response, attempt) == IF response.status = 409 THEN "return"
                                             ELSE IF response.status < 400 THEN "return"
                                             ELSE IF response.json /\ response.error_code = "EXTERNAL_LOCATION_ALREADY_EXISTS" THEN "return"
                                             ELSE IF response.status = 403 /\ should_retry_external_location(response) /\ attempt < MaxAttempts THEN "retry"
                                             ELSE "raise"

\* the wait before the next attempt
NextBackoff(op, attempt, backoff) == IF op = "ensure_storage_credential" THEN Min2(backoff * 2, BackoffCap) ELSE Min2(BackoffCap, BackoffStep * (attempt + 1))

\* no call yet; resent_after holds the answers after which the request was
\* sent again
IdleRequests == [pc |-> "idle", op |-> "none", attempt |-> 0, backoff |-> 0, posts |-> 0, last |-> <<>>, resent_after |-> {}, sleeps |-> <<>>, existing |-> <<>>, outcome |-> "none"]

\* ensure_storage_credential or ensure_external_location is called
EnsureCall(op) == /\ rq.pc \in {"idle", "done"}
                  /\ rq' = [IdleRequests EXCEPT !.pc = "post", !.op = op, !.attempt = 1, !.backoff = FirstBackoff]
                  /\ UNCHANGED <<naming, clock, files, service, st, wf, nm, cli, th, tk>>

\* one pass of the loop: the creation request is sent and answered
EnsurePost(response) == /\ rq.pc = "post"
                        /\ LET pass == IF rq.op = "ensure_storage_credential" THEN storage_credential_pass(response, rq.attempt) ELSE external_location_pass(response, rq.attempt)
                               sent == [rq EXCEPT !.posts = @ + 1, !.last = <<response>>]
                           IN  rq' = CASE pass = "return" -> [sent EXCEPT !.pc = "done", !.outcome = "returned"]
                                       [] pass = "lookup" -> [sent EXCEPT !.pc = "lookup"]
                                       [] pass = "retry" -> [sent EXCEPT !.attempt = @ + 1, !.sleeps = Append(@, rq.backoff), !.backoff = NextBackoff(rq.op, rq.attempt, @), !.resent_after = @ \cup {response}]
                                       [] OTHER -> [sent EXCEPT !.pc = "done", !.outcome = "raised"]
                        /\ UNCHANGED <<naming, clock, files, service, st, wf, nm, cli, th, tk>>

\* the GET of the existing credential after a 409, with raise_for_status
EnsureLookup(status) == /\ rq.pc = "lookup"
                        /\ rq' = [rq EXCEPT !.pc = "done", !.existing = <<status>>, !.outcome = IF status >= 400 THEN "raised" ELSE "returned"]
                        /\ UNCHANGED <<naming, clock, files, service, st, wf, nm, cli, th, tk>>

(***************************************************************************)
(* ClientCredentialProvider and _DatabricksOAuthClient: cached tokens      *)
(***************************************************************************)
\* the seconds before its expiry at which a token is renewed
RefreshMargin == 60

\* the clock of the token caches stops here
MaxTime == 120

\* at most this many token requests are sent
MaxTokenRequests == 3

\* time.time() moves on by one of these between two acquisitions
ClockSteps == {30}

\* the lifetimes the token endpoint grants (expires_in)
Lifetimes == {30, 120}

\* the scopes asked of ClientCredentialProvider
TokenScopes == {"graph", "management"}

\* OAuthToken as _request_token builds it; expiry is the moment the endpoint
\* lets the token lapse
OAuthToken(access_token, expires_in, now) == [access_token |-> access_token, expires_at |-> now + expires_in, expiry |-> now + expires_in]

\* _DatabricksOAuthToken.__init__
DatabricksOAuthToken(access_token, expires_in, now) == [access_token |-> access_token, expires_at |-> now + Max2(expires_in - RefreshMargin, 0), expiry |-> now + expires_in]

\* OAuthToken.is_expired without the early refresh
is_expired_NoMargin(token, now) == now >= token.expires_at

\* OAuthToken.is_expired
is_expired(token, now) == now >= token.expires_at - RefreshMargin

\* _DatabricksOAuthToken.is_valid
is_valid(token, now) == now < token.expires_at

\* empty caches; last describes the latest acquisition: what was cached
\* before it, whether a request was sent and what the caller received
IdleTokens == [now |-> 0, cache |-> [scope \in TokenScopes |-> <<>>], cached_token |-> <<>>, requests |-> 0, last |-> [provider |-> "none", scope |-> "none", at |-> 0, before |-> [scope \in TokenScopes |-> <<>>], prior |-> <<>>, sent |-> FALSE, returned |-> <<>>]]

\* time passes
TokenTick(step) == /\ tk.now + step <= MaxTime
                   /\ tk' = [tk EXCEPT !.now = @ + step]
                   /\ UNCHANGED <<naming, clock, files, service, st, wf, nm, cli, th, rq>>

\* ClientCredentialProvider.acquire_token; the request raises on a status
\* of 400 and above
acquire_token(scope, expires_in, rejected) == /\ LET cached == tk.cache[scope]
                                                     hit == cached # <<>> /\ ~is_expired(cached[1], tk.now)
                                                     token == OAuthToken(tk.requests + 1, expires_in, tk.now)
                                                     seen == [provider |-> "ClientCredentialProvider", scope |-> scope, at |-> tk.now, before |-> tk.cache, prior |-> cached, sent |-> ~hit, returned |-> <<>>]
                                                 IN  /\ hit \/ tk.requests < MaxTokenRequests
                                                     /\ tk' = IF hit THEN [tk EXCEPT !.last = [seen EXCEPT !.returned = <<cached[1].access_token>>]]
                                                               ELSE IF rejected THEN [tk EXCEPT !.requests = @ + 1, !.last = seen]
                                                               ELSE [tk EXCEPT !.requests = @ + 1, !.cache[scope] = <<token>>, !.last = [seen EXCEPT !.returned = <<token.access_token>>]]
                                              /\ UNCHANGED <<naming, clock, files, service, st, wf, nm, cli, th, rq>>

\* _DatabricksOAuthClient.get_token
get_token(expires_in, rejected) == /\ LET cached == tk.cached_token
                                          hit == cached # <<>> /\ is_valid(cached[1], tk.now)
                                          token == DatabricksOAuthToken(tk.requests + 1, expires_in, tk.now)
                                          seen == [provider |-> "_DatabricksOAuthClient", scope |-> "all", at |-> tk.now, before |-> tk.cache, prior |-> cached, sent |-> ~hit, returned |-> <<>>]
                                      IN  /\ hit \/ tk.requests < MaxTokenRequests
                                          /\ tk' = IF hit THEN [tk EXCEPT !.last = [seen EXCEPT !.returned = <<cached[1].access_token>>]]
                                                    ELSE IF rejected THEN [tk EXCEPT !.requests = @ + 1, !.last = seen]
                                                    ELSE [tk EXCEPT !.requests = @ + 1, !.cached_token = <<token>>, !.last = [seen EXCEPT !.returned = <<token.access_token>>]]
                                   /\ UNCHANGED <<naming, clock, files, service, st, wf, nm, cli, th, rq>>

(***************************************************************************)
(* Specifications                                                          *)
(***************************************************************************)
\* sub-second part of the clock
Micros == {0, 250}

Init == /\ naming \in [prefix : Prefixes, separator : Separators]
        /\ clock \in [sec : {0}, us : Micros]
        /\ files = <<>>
        /\ remote = {}
        /\ minted = 0
        /\ faults = 0
        /\ cur = IdleCall
        /\ del = IdleDelete
        /\ prev = Summary(IdleCall)
        /\ st = IdleStore
        /\ wf = IdleWorkflow
        /\ nm = IdleNaming
        /\ cli = IdleCli
        /\ th = IdleThreads
        /\ rq = IdleRequests
        /\ tk = IdleTokens

Next == \/ \E name \in RawNames : CreateBegin(name, MaxCalls)
        \/ ProvisionStepOk
        \/ \E prime_fails \in BOOLEAN : CreateSucceed(prime_fails, MaxFaults)
        \/ IntegrationInUse(MaxFaults)
        \/ ProvisionRetry(MaxFaults)
        \/ CreateFail(MaxFaults)
        \/ \E name \in RawNames : DeleteBegin(name, MaxCalls, MaxFaults)
        \/ \E identity_fails, sp_fails \in BOOLEAN : DeleteLookups(identity_fails, sp_fails, MaxFaults)
        \/ \E fail_at \in 0..Len(SnowflakeSteps) : DeleteSnowflake(fail_at, MaxFaults)
        \/ \E lookup_fails \in BOOLEAN : DeleteDatabricks(lookup_fails, MaxFaults)
        \/ DeleteIdentity(MaxFaults)
        \/ DeleteAzure(MaxFaults)

Spec == Init /\ [][Next]_vars

\* one create_datasource call with enough failures to exhaust the retries
NextRetry == \/ \E name \in RawNames : CreateBegin(name, 1)
             \/ ProvisionStepOk
             \/ \E prime_fails \in BOOLEAN : CreateSucceed(prime_fails, MaxRetryFaults)
             \/ IntegrationInUse(MaxRetryFaults)
             \/ ProvisionRetry(MaxRetryFaults)
             \/ CreateFail(MaxRetryFaults)

SpecRetry == Init /\ [][NextRetry]_vars

\* the remote objects a creation leaves behind after its first k calls
Provisioned(nn, k) == {<<nn, CreateSteps[i]>> : i \in 1..k}

\* what the users of a catalog may have put into it: a schema and its tables
CatalogContents == {{}, {"schema extra"}, {"schema extra", "table extra.t1"}, {"schema extra", "table extra.t1", "table extra.t2"}}

\* the datasource being torn down
TeardownNames == { <<"c">> }

\* a service started on an empty state directory while the resources of a
\* datasource exist: delete_datasource then works from the inferred record
InitTeardown == /\ naming \in [prefix : Prefixes, separator : Separators]
                /\ clock \in [sec : {0}, us : Micros]
                /\ files = <<>>
                /\ \E name \in TeardownNames, k \in 0..LastStep, content \in CatalogContents :
                      /\ content # {} => "ensure_catalog" \in {CreateSteps[i] : i \in 1..k}
                      /\ remote = Provisioned(normalize_name(name), k) \cup {<<normalize_name(name), c>> : c \in content}
                /\ minted = 0
                /\ faults = 0
                /\ cur = IdleCall
                /\ del = IdleDelete
                /\ prev = Summary(IdleCall)
                /\ st = IdleStore
                /\ wf = IdleWorkflow
                /\ nm = IdleNaming
                /\ cli = IdleCli
                /\ th = IdleThreads
                /\ rq = IdleRequests
                /\ tk = IdleTokens

\* one delete_datasource call
NextTeardown == \/ \E name \in TeardownNames : DeleteBegin(name, 1, MaxTeardownFaults)
                \/ \E identity_fails, sp_fails \in BOOLEAN : DeleteLookups(identity_fails, sp_fails, MaxTeardownFaults)
                \/ \E fail_at \in 0..Len(SnowflakeSteps) : DeleteSnowflake(fail_at, MaxTeardownFaults)
                \/ \E lookup_fails \in BOOLEAN : DeleteDatabricks(lookup_fails, MaxTeardownFaults)
                \/ DeleteIdentity(MaxTeardownFaults)
                \/ DeleteAzure(MaxTeardownFaults)

SpecTeardown == InitTeardown /\ [][NextTeardown]_vars

\* any sequence of state store operations
NextStore == \/ \E record \in StoreRecords : StoreSave(record)
             \/ \E key \in StoreNames : StoreGet(key)
             \/ \E key \in StoreNames : StoreExists(key)
             \/ \E key \in StoreNames : StoreDelete(key)
             \/ StoreList

SpecStore == Init /\ [][NextStore]_vars

\* threads that call save on the one store of the process; a thread that can
\* take a step inside save eventually takes it
NextSave == \/ \E t \in SaveThreads, record \in SaveRecords : SaveEnter(t, record)
            \/ \E t \in SaveThreads : SaveAcquire(t)
            \/ \E t \in SaveThreads, raises \in BOOLEAN : SaveOpen(t, raises)
            \/ \E t \in SaveThreads, raises \in BOOLEAN : SaveWrite(t, raises)
            \/ \E t \in SaveThreads : SaveExit(t)

SpecSave == Init /\ [][NextSave]_vars /\ \A t \in SaveThreads : WF_vars(SaveStep(t))

\* one get or list_records while the threads save
NextRead == \/ \E t \in SaveThreads, record \in SaveRecords : th.saves[t] < MaxReadSaves /\ SaveEnter(t, record)
            \/ \E t \in SaveThreads : SaveAcquire(t)
            \/ \E t \in SaveThreads, raises \in BOOLEAN : SaveOpen(t, raises)
            \/ \E t \in SaveThreads, raises \in BOOLEAN : SaveWrite(t, raises)
            \/ \E t \in SaveThreads : SaveExit(t)
            \/ \E record \in SaveRecords : ReadGet(record.request.name)
            \/ ReadList

SpecRead == Init /\ [][NextRead]_vars

\* calls of the two creation operations under every sequence of answers
NextPropagation == \/ \E op \in {"ensure_storage_credential", "ensure_external_location"} : EnsureCall(op)
                   \/ \E response \in CreationResponses : EnsurePost(response)
                   \/ \E status \in LookupStatuses : EnsureLookup(status)

SpecPropagation == Init /\ [][NextPropagation]_vars

\* acquisitions of tokens from both caches while time passes
NextTokens == \/ \E step \in ClockSteps : TokenTick(step)
              \/ \E scope \in TokenScopes, expires_in \in Lifetimes, rejected \in BOOLEAN : acquire_token(scope, expires_in, rejected)
              \/ \E expires_in \in Lifetimes, rejected \in BOOLEAN : get_token(expires_in, rejected)

SpecTokens == Init /\ [][NextTokens]_vars

\* runs of the workflow runner, one after the other
NextWorkflow == \/ \E steps \in Workflows, context \in Contexts : WorkflowRun(steps, context)
                \/ \E raises \in BOOLEAN : WorkflowAction(raises)
                \/ WorkflowReturn
                \/ \E raises \in BOOLEAN : WorkflowCompensate(raises)
                \/ WorkflowRaise

SpecWorkflow == Init /\ [][NextWorkflow]_vars

\* the naming policy under every naming configuration
InitNaming == /\ naming \in [prefix : NamingPrefixes, separator : NamingSeparators]
              /\ clock = [sec |-> 0, us |-> 0]
              /\ files = <<>>
              /\ remote = {}
              /\ minted = 0
              /\ faults = 0
              /\ cur = IdleCall
              /\ del = IdleDelete
              /\ prev = Summary(IdleCall)
              /\ st = IdleStore
              /\ wf = IdleWorkflow
              /\ nm = IdleNaming
              /\ cli = IdleCli
              /\ th = IdleThreads
              /\ rq = IdleRequests
              /\ tk = IdleTokens

NextNaming == \E raw_name \in NamingRawNames : Normalize(raw_name)

SpecNaming == InitNaming /\ [][NextNaming]_vars

\* the delete-datasource command over every outcome of the service
NextCli == \/ \E result \in DeletionResults : DeleteCommandReturns(result)
           \/ \E cls \in CliExcClasses : DeleteCommandRaises(cls)

SpecCli == Init /\ [][NextCli]_vars

(***************************************************************************)
(* Properties                                                              *)
(***************************************************************************)
Transient == {"ConnectionError", "TimeoutError"}

CreateDone == cur.op = "create" /\ cur.pc = "done"

DeleteDone == cur.op = "delete" /\ cur.pc = "done"

\* the document the store holds under the request name of the current call
SavedDoc == files[path_for(cur.name)]

Subsystems == {"snowflake", "databricks", "identity", "azure"}

\* C1: a create_datasource call that follows a fully succeeded create of the
\* identical request makes no remote call, writes nothing to the state store
\* and returns a record equal to the one the first call returned.
C1_IdempotentCreate == (CreateDone /\ prev.op = "create" /\ prev.name = cur.name /\ prev.outcome = "returned") => (cur.outcome = "returned" /\ ~cur.remote_called /\ cur.saves = 0 /\ cur.ret = prev.ret)

\* C2: when the record persisted for the datasource already holds a non-empty
\* client secret (directory application or governance service principal), a
\* new create_datasource call does not mint that secret again and the record
\* it leaves behind carries the stored value.
C2_SecretNonRepetition == CreateDone => (\A d \in cur.prior :
                             /\ (d.resources.service_principal_client_secret # 0) => (/\ cur.azure_mints = 0
                                                                                      /\ (cur.saves > 0) => (SavedDoc.resources.service_principal_client_secret = d.resources.service_principal_client_secret)
                                                                                      /\ (cur.outcome = "returned") => (cur.ret[1].resources.service_principal_client_secret = d.resources.service_principal_client_secret))
                             /\ (d.resources.databricks_oauth_client_secret # 0) => (/\ cur.databricks_mints = 0
                                                                                     /\ (cur.saves > 0) => (SavedDoc.resources.databricks_oauth_client_secret = d.resources.databricks_oauth_client_secret)
                                                                                     /\ (cur.outcome = "returned") => (cur.ret[1].resources.databricks_oauth_client_secret = d.resources.databricks_oauth_client_secret)))

\* C3: after a create_datasource call failed in a step of the creation
\* sequence, a re-invocation with the same request during which no remote
\* call fails returns a record with status succeeded.
C3_Convergence == (CreateDone /\ cur.injected = 0 /\ prev.op = "create" /\ prev.name = cur.name /\ prev.outcome = "raised" /\ prev.attempts > 0) => (cur.outcome = "returned" /\ cur.ret[1].status = "succeeded")

\* C4: a delete_datasource call that found a stored record returns; the record
\* is gone and state_deleted is true exactly when all four subsystem outcomes
\* succeeded, otherwise the store is unchanged and state_deleted is false.
C4_DeleteRemovesStateOnFullSuccess == (DeleteDone /\ del.stored) => (/\ cur.outcome = "returned"
                                                                     /\ (del.failed = {}) <=> (del.state_deleted /\ ~StateExists(del.state_key))
                                                                     /\ (del.failed # {}) => (~del.state_deleted /\ files = del.files0))

\* C5: delete_datasource never raises: whichever remote calls fail, it returns
\* a DatasourceDeletionResult.
C5_DeleteNeverRaises == DeleteDone => (cur.outcome = "returned" /\ cur.ret # <<>>)

\* C6: with a stored record, delete_datasource attempts all four subsystem
\* teardowns, and when only the integration teardown raised it returns
\* state_found = true, state_deleted = false, snowflake failed and the other
\* three succeeded.
C6_PartialFailureIsolated == (DeleteDone /\ del.stored) => (/\ cur.outcome = "returned"
                                                            /\ del.attempted = Subsystems
                                                            /\ cur.ret[1].state_found
                                                            /\ (del.failed = {"snowflake"}) => (~cur.ret[1].state_deleted /\ ~cur.ret[1].snowflake /\ cur.ret[1].databricks /\ cur.ret[1].identity /\ cur.ret[1].azure))

\* C7: when the first two attempts of the creation sequence fail with a
\* transient network error, a third attempt is made and no fourth; when the
\* third succeeds create_datasource returns a succeeded record that is the one
\* persisted, and no error reaches the caller.
C7_RetrySuccess == (CreateDone /\ Len(cur.log) >= 2 /\ cur.log[1] \in Transient /\ cur.log[2] \in Transient) => (/\ Len(cur.log) = 3
                                                                                                                 /\ cur.attempt = 3
                                                                                                                 /\ (cur.log[3] = "ok") => (cur.outcome = "returned" /\ cur.err = <<>> /\ cur.ret[1].status = "succeeded" /\ cur.saves = 1 /\ SavedDoc = record_to_json(cur.ret[1])))

C7_Witness == CreateDone /\ Len(cur.log) = 3 /\ cur.log[1] \in Transient /\ cur.log[2] \in Transient /\ cur.log[3] = "ok" /\ cur.outcome = "returned"

\* C8: when every attempt of the creation sequence fails with a transient
\* network error, there are exactly 3 attempts with waits of 1 and then 2
\* time units (never more than 8), the last error is raised to the caller and
\* a failed record is persisted.
C8_RetryBound == /\ \A i \in 1..Len(cur.sleeps) : cur.sleeps[i] <= 8
                 /\ (CreateDone /\ cur.log # <<>> /\ (\A i \in 1..Len(cur.log) : cur.log[i] \in Transient)) => (/\ Len(cur.log) = 3
                                                                                                                /\ cur.sleeps = <<1, 2>>
                                                                                                                /\ cur.outcome = "raised"
                                                                                                                /\ cur.err # <<>>
                                                                                                                /\ cur.err[1].cls = cur.log[3]
                                                                                                                /\ SavedDoc.status = "failed"
                                                                                                                /\ SavedDoc.last_error = <<ErrorText(cur.err[1])>>)

C8_Witness == CreateDone /\ Len(cur.log) = 3 /\ (\A i \in 1..3 : cur.log[i] \in Transient) /\ cur.sleeps = <<1, 2>> /\ cur.outcome = "raised"

\* C9: a creation step failing with anything but a transient network error
\* ends the call at once: that attempt is the last one (the only one when it
\* is the first), no wait follows it, the error is raised to the caller and
\* its text is the last_error of the persisted record.
C9_NonTransientNotRetried == (cur.op = "create") => (\A i \in 1..Len(cur.log) : (cur.log[i] \notin (Transient \cup {"ok"})) => (/\ i = Len(cur.log)
                                                                                                                                /\ cur.pc = "done"
                                                                                                                                /\ Len(cur.sleeps) = i - 1
                                                                                                                                /\ cur.outcome = "raised"
                                                                                                                                /\ cur.err[1].cls = cur.log[i]
                                                                                                                                /\ SavedDoc.status = "failed"
                                                                                                                                /\ SavedDoc.last_error = <<ErrorText(cur.err[1])>>))

C9_Witness == CreateDone /\ cur.log = <<"RuntimeError">> /\ cur.sleeps = <<>> /\ cur.outcome = "raised" /\ cur.injected = 1

\* C10: every create_datasource call that is not short-circuited saves a
\* record before it ends: with status succeeded when it returns, with status
\* failed and the text of the raised error as last_error when it raises.
C10_EveryAttemptPersisted == (CreateDone /\ ~cur.short) => (/\ cur.saves >= 1
                                                            /\ StateExists(cur.name)
                                                            /\ (cur.outcome = "returned") => (SavedDoc.status = "succeeded" /\ SavedDoc.last_error = <<>>)
                                                            /\ (cur.outcome = "raised") => (SavedDoc.status = "failed" /\ SavedDoc.last_error = <<ErrorText(cur.err[1])>>))

\* C11: every record create_datasource saves is stored under the normalized
\* name: once the call has ended, the file of the normalized name holds the
\* record of this request and get(normalized name) returns it.
C11_StateKeyIsNormalizedName == (CreateDone /\ cur.saves > 0) => (StateExists(cur.nn) /\ files[path_for(cur.nn)] = SavedDoc /\ StateGet(cur.nn).kind = "ok" /\ StateGet(cur.nn).record # <<>>)

\* both timestamps of the record are whole seconds
WholeSeconds(record) == record.updated_at.us = 0 /\ record.resources.created_at.us = 0

\* C12: a record with whole-second timestamps that is saved and then read by
\* the same name comes back equal to the original (request, every field of
\* resources, status, last_error, updated_at); so does
\* _json_to_record(_record_to_json(record)).
C12_StateRoundTrip == (st.op = "get" /\ st.prior = [op |-> "save", key |-> st.key] /\ WholeSeconds(st.map[st.key])) => (st.kind = "ok" /\ st.ret = <<st.map[st.key]>> /\ json_to_record(record_to_json(st.map[st.key])).record = <<st.map[st.key]>>)

\* C13: the state store is a map keyed by datasource name: a name is stored
\* exactly when it was saved and not since deleted, with the document last
\* saved under it (so an operation on one name leaves the others alone);
\* exists, get, delete and list_records answer accordingly.
C13_StoreIsAMap == /\ \A k \in StoreNames : StateExists(k) <=> (k \in DOMAIN st.map)
                   /\ \A k \in DOMAIN st.map : StateExists(k) => (files[path_for(k)] = record_to_json(st.map[k]))
                   /\ (st.op = "exists") => (st.ret = <<st.key \in DOMAIN st.map>>)
                   /\ (st.op = "get" /\ st.key \in DOMAIN st.map) => (st.kind = "ok" /\ st.ret # <<>> /\ record_to_json(st.ret[1]) = record_to_json(st.map[st.key]))
                   /\ (st.op = "get" /\ st.key \notin DOMAIN st.map) => (st.kind = "ok" /\ st.ret = <<>>)
                   /\ (st.op = "delete") => (st.ret = <<st.had>> /\ ~StateExists(st.key))
                   /\ (st.op = "list") => (st.kind = "ok" /\ Len(st.ret) = Cardinality(DOMAIN st.map) /\ {st.ret[i].request.name : i \in 1..Len(st.ret)} = DOMAIN st.map)

\* C14: when no stored record can be resolved for the name, delete_datasource
\* works on identifiers synthesized from the normalized name (container,
\* identity, storage credential, external location, catalog, external volume
\* and catalog integration are the normalized name, the group is <name>-rw,
\* the linked database <name>_linked_db, the service-principal id comes from
\* the application lookup and is empty when it fails), attempts the teardown
\* of every subsystem and returns a result with state_found = false.
C14_InferredRecordDeletion == /\ (cur.op = "delete" /\ cur.pc = "delete" /\ del.pc = "lookups" /\ ~del.stored) => (/\ ~del.state_exists
                                                                                                                   /\ extract_container_name(del.record[1].resources.container_url) = cur.nn
                                                                                                                   /\ extract_identity_name(del.record[1].resources.managed_identity_id, <<>>) = cur.nn
                                                                                                                   /\ del.record[1].resources.storage_credential_name = cur.nn
                                                                                                                   /\ del.record[1].resources.external_location_name = cur.nn
                                                                                                                   /\ del.record[1].resources.catalog_name = cur.nn
                                                                                                                   /\ del.record[1].resources.snowflake_external_volume_name = cur.nn
                                                                                                                   /\ del.record[1].resources.snowflake_catalog_integration_name = cur.nn
                                                                                                                   /\ del.record[1].resources.group_name = cur.nn \o <<"-", "r", "w">>
                                                                                                                   /\ del.record[1].resources.snowflake_database_name = cur.nn \o <<"_linked_db">>
                                                                                                                   /\ del.record[1].resources.service_principal_app_id = (IF cur.injected > 0 \/ <<cur.nn, "ensure_application">> \notin remote THEN <<>> ELSE <<"appId:">> \o cur.nn))
                              /\ (DeleteDone /\ ~del.stored /\ cur.injected = 0) => (cur.outcome = "returned" /\ ~cur.ret[1].state_found /\ del.attempted = Subsystems)

WorkflowFailed == wf.pc = "done" /\ wf.failed > 0

\* the steps whose compensator ran, in the order they ran
RECURSIVE Compensated(_)
Compensated(trace) == IF trace = <<>> THEN <<>> ELSE (IF Head(trace).kind = "compensator" THEN <<Head(trace).step>> ELSE <<>>) \o Compensated(Tail(trace))

\* the steps whose action was started, in the order they were started
RECURSIVE Acted(_)
Acted(trace) == IF trace = <<>> THEN <<>> ELSE (IF Head(trace).kind = "action" THEN <<Head(trace).step>> ELSE <<>>) \o Acted(Tail(trace))

\* the steps before k that have a compensator, last first
RECURSIVE CompensableBefore(_, _)
CompensableBefore(steps, k) == IF k <= 1 THEN <<>> ELSE (IF steps[k - 1].compensator THEN <<k - 1>> ELSE <<>>) \o CompensableBefore(steps, k - 1)

\* C15: when the action of step k raises, the compensators of exactly the
\* earlier steps that have one run once each, last step first, after the
\* failed action; neither the compensator of step k nor the action of a later
\* step runs; run raises WorkflowExecutionError with the name of step k
\* as first argument.
C15_WorkflowCompensation == WorkflowFailed => (/\ Compensated(wf.trace) = CompensableBefore(wf.steps, wf.failed)
                                               /\ Acted(wf.trace) = [i \in 1..wf.failed |-> i]
                                               /\ \A i \in 1..Len(wf.trace) : (wf.trace[i].kind = "compensator") => (i > wf.failed)
                                               /\ wf.outcome = "raised"
                                               /\ wf.err = <<[cls |-> "WorkflowExecutionError", args |-> <<StepName(wf.failed)>>]>>)

C15_Witness == WorkflowFailed /\ wf.failed = 3 /\ wf.steps[1].compensator /\ ~wf.steps[2].compensator /\ Compensated(wf.trace) = <<1>>

\* C16: when no action raises, run executes the action of every step once,
\* in list order, runs no compensator and returns the context object it was
\* given.
C16_WorkflowSuccessPath == (wf.pc = "done" /\ wf.failed = 0) => (/\ wf.trace = [i \in 1..Len(wf.steps) |-> [kind |-> "action", step |-> i, raised |-> FALSE]]
                                                                 /\ wf.outcome = "returned"
                                                                 /\ wf.ret = <<wf.context>>)

C16_Witness == wf.pc = "done" /\ wf.failed = 0 /\ Len(wf.steps) = 3 /\ wf.steps[2].compensator /\ wf.outcome = "returned"

\* C17: for every raw name, prefix and separator, normalize returns at most
\* 63 characters, all of them in [a-z0-9-], with no dash at either end and no
\* two dashes in a row; "My Data/Source!!" with prefix "acme" and separator
\* "-" gives "acme-my-data-source".
C17_NamingPolicyOutput == (nm.pc = "done") => (/\ Len(nm.out) <= 63
                                               /\ \A i \in 1..Len(nm.out) : nm.out[i] \in {"a","b","c","d","e","f","g","h","i","j","k","l","m","n","o","p","q","r","s","t","u","v","w","x","y","z","0","1","2","3","4","5","6","7","8","9","-"}
                                               /\ (nm.out # <<>>) => (nm.out[1] # "-" /\ nm.out[Len(nm.out)] # "-")
                                               /\ \A i \in 1..(Len(nm.out) - 1) : ~(nm.out[i] = "-" /\ nm.out[i + 1] = "-")
                                               /\ (nm.raw = MyDataSource /\ naming = [prefix |-> <<"a", "c", "m", "e">>, separator |-> <<"-">>]) => (nm.out = <<"a","c","m","e","-","m","y","-","d","a","t","a","-","s","o","u","r","c","e">>))

AllSubsystemsSucceeded(result) == result.azure /\ result.identity /\ result.databricks /\ result.snowflake

\* C19: delete-datasource exits 0 exactly when the four subsystem outcomes
\* succeeded and state_deleted is true (state found or not), 1 when a
\* subsystem outcome failed, 2 when all succeeded but the state record was
\* not removed.
C19_DeleteExitCodes == /\ (cli.pc = "done" /\ cli.exit_code = 0) => (cli.result # <<>> /\ AllSubsystemsSucceeded(cli.result[1]) /\ cli.result[1].state_deleted)
                       /\ (cli.pc = "done" /\ cli.result # <<>> /\ AllSubsystemsSucceeded(cli.result[1]) /\ cli.result[1].state_deleted) => (cli.exit_code = 0)
                       /\ (cli.pc = "done" /\ cli.result # <<>> /\ ~AllSubsystemsSucceeded(cli.result[1])) => (cli.exit_code = 1)
                       /\ (cli.pc = "done" /\ cli.result # <<>> /\ AllSubsystemsSucceeded(cli.result[1]) /\ ~cli.result[1].state_deleted) => (cli.exit_code = 2)

C19_Witness == cli.pc = "done" /\ cli.result # <<>> /\ ~cli.result[1].snowflake /\ ~cli.result[1].state_deleted /\ cli.result[1].azure /\ cli.exit_code = 1

\* C18: not-found on delete is success: a delete_datasource run that injects
\* no failure and finds every remote resource of the datasource already
\* absent returns with all four subsystem outcomes succeeded, and so does a
\* run that repeats a fully successful delete of the same name
C18_NotFoundOnDeleteIsSuccess == /\ (DeleteDone /\ del.absent0 /\ cur.injected = 0) => (cur.outcome = "returned" /\ AllSubsystemsSucceeded(cur.ret[1]))
                                 /\ (DeleteDone /\ cur.injected = 0 /\ prev.op = "delete" /\ prev.name = cur.name /\ prev.outcome = "returned" /\ AllSubsystemsSucceeded(prev.ret[1])) => (cur.outcome = "returned" /\ AllSubsystemsSucceeded(cur.ret[1]))

\* the status fields of a record or of a stored document agree
StatusInvariant(r) == r.status \in {"succeeded", "failed"} /\ (r.last_error # <<>> <=> r.status = "failed")

\* C20: every record produced by mark_succeeded, mark_failed and
\* create_datasource, every document written by save and every record read
\* back by get has status succeeded or failed, and carries a last_error
\* exactly when its status is failed
C20_RecordStatusInvariant == /\ \A p \in DOMAIN files : (/\ StatusInvariant(files[p])
                                                        /\ json_to_record(files[p]).record # <<>> => StatusInvariant(json_to_record(files[p]).record[1]))
                             /\ (cur.op = "create" /\ cur.ret # <<>>) => (StatusInvariant(cur.ret[1]) /\ cur.ret[1].status = "succeeded")
                             /\ cur.existing # <<>> => StatusInvariant(cur.existing[1])
                             /\ (CreateDone /\ cur.outcome = "raised" /\ cur.saves > 0) => (SavedDoc.status = "failed" /\ SavedDoc.last_error = <<ErrorText(cur.err[1])>>)
                             /\ (CreateDone /\ cur.outcome = "returned" /\ cur.saves > 0) => (SavedDoc.status = "succeeded" /\ SavedDoc.last_error = <<>>)

\* a store that holds a failed document with its error next to a succeeded one
C20_Witness == /\ CreateDone
               /\ \E p \in DOMAIN files : files[p].status = "failed" /\ files[p].last_error # <<>>
               /\ \E p \in DOMAIN files : files[p].status = "succeeded" /\ files[p].last_error = <<>>

\* the documented creation order: the calls of each documented stage
DocumentedOrder == << {"ensure_container"}, {"ensure_user_assigned_identity"}, {"ensure_storage_account_role_assignment_identity"}, {"attach_identity_to_access_connector"}, {"ensure_application"}, {"ensure_service_principal"}, {"ensure_group", "add_group_member", "ensure_storage_account_role_assignment_sp"}, {"create_application_secret"}, {"ensure_account_service_principal", "ensure_workspace_service_principal", "ensure_account_service_principal_identity", "databricks_ensure_group", "add_service_principal_to_group"}, {"create_service_principal_secret"}, {"ensure_storage_credential"}, {"ensure_external_location"}, {"ensure_catalog"}, {"grant_catalog_privileges_all"}, {"ensure_external_volume"}, {"ensure_catalog_integration", "cleanup_catalog_linked_artifacts"}, {"ensure_catalog_linked_database"}, {"prime_catalog_linked_database"} >>

\* the documented stage a call belongs to
Stage(step) == CHOOSE k \in 1..Len(DocumentedOrder) : step \in DocumentedOrder[k]

\* the calls a stage needs to have returned before a later stage may start
Required(k) == IF (k = 8 /\ cached_azure_secret(cur.existing) # 0) \/ (k = 10 /\ cached_databricks_secret(cur.existing) # 0) THEN {} ELSE DocumentedOrder[k] \ {"cleanup_catalog_linked_artifacts"}

\* C21: within every attempt of the creation sequence the remote calls occur
\* in the documented order, a call that did not return is the last call of
\* its attempt (but for an in-use report, which is followed by the cleanup),
\* and a call is made only after every call of every earlier stage returned
C21_CreationOrdering == (cur.op = "create") => LET stages == [i \in 1..Len(cur.calls) |-> Stage(cur.calls[i].step)]
                                                   returned(j) == {cur.calls[i].step : i \in {x \in 1..(j - 1) : cur.calls[x].ok}}
                                               IN  /\ \A i \in 1..Len(cur.calls) : cur.calls[i].step \in UNION {DocumentedOrder[k] : k \in 1..Len(DocumentedOrder)}
                                                   /\ \A i \in 1..(Len(cur.calls) - 1) : stages[i] <= stages[i + 1]
                                                   /\ \A i \in 1..(Len(cur.calls) - 1) : cur.calls[i].ok \/ (cur.calls[i].step = "ensure_catalog_integration" /\ cur.calls[i + 1].step = "cleanup_catalog_linked_artifacts")
                                                   /\ \A j \in 1..Len(cur.calls) : UNION {Required(k) : k \in 1..(stages[j] - 1)} \subseteq returned(j)

\* a creation that succeeded on a retry after calling every step in order
C21_Witness == CreateDone /\ cur.outcome = "returned" /\ Len(cur.log) >= 2 /\ Len(cur.calls) = Len(CreateSteps) /\ (\A i \in 1..Len(CreateSteps) : cur.calls[i].step = CreateSteps[i])

\* the teardown steps of a subsystem that do not depend on what the lookups found
SubsystemSteps(subsystem) == CASE subsystem = "snowflake" -> Range(SnowflakeSteps)
                               [] subsystem = "databricks" -> {"delete_catalog", "delete_external_location", "delete_storage_credential"}
                               [] subsystem = "identity" -> {"delete_group", "delete_application"} \cup (IF CurNames.app_id # <<>> THEN {"delete_service_principal"} ELSE {})
                               [] subsystem = "azure" -> Range(AzureSteps(CurNames, del.identity_info, del.service_principal_info))

\* C22: within each subsystem teardown a failing step does not prevent the
\* later steps of that subsystem from being attempted, and the outcome of
\* the subsystem aggregates the step errors
C22_TeardownKeepsGoing == /\ \A subsystem \in del.attempted : SubsystemSteps(subsystem) \subseteq Range(del.calls)
                          /\ (cur.op = "delete" /\ del.pc = "returned") => (del.failed = {} <=> del.errors = {} /\ ~del.identity_lookup_error /\ ~del.service_principal_lookup_error)

\* the stored documents whose request name normalizes to the name being deleted
ScanMatches == {q \in DOMAIN del.files0 : normalize_name(del.files0[q].request.name) = cur.nn}

\* the record delete_datasource resolved is the stored document at path p, found under key
ResolvedAs(p, key) == /\ del.state_exists
                      /\ del.state_key = key
                      /\ path_for(key) = p
                      /\ del.record # <<>>
                      /\ record_to_json(del.record[1]) = del.files0[p]

\* C23: delete_datasource resolves the record under the normalized key, else
\* under the raw input key, else by scanning the stored records for one whose
\* request name normalizes to the same name; the first match is used with
\* state_found true and the key it is stored under, and an inferred record
\* with state_found false is used only when all three find nothing
C23_RecordResolutionOrder == (cur.op = "delete" /\ del.pc # "idle") => (IF path_for(cur.nn) \in DOMAIN del.files0 THEN ResolvedAs(path_for(cur.nn), cur.nn)
                                                                         ELSE IF path_for(cur.name) \in DOMAIN del.files0 THEN ResolvedAs(path_for(cur.name), cur.name)
                                                                         ELSE IF ScanMatches # {} THEN \E q \in ScanMatches : ResolvedAs(q, del.files0[q].request.name)
                                                                         ELSE ~del.state_exists /\ del.state_key = cur.nn /\ del.record # <<>> /\ del.record[1].request.name = cur.nn)

\* the twelve identifier and secret fields are the empty string ("" is 0 for a secret)
BlankFields(resources) == \A f \in ResourceFields : IF f \in {"service_principal_client_secret", "databricks_oauth_client_secret"} THEN resources[f] = 0 ELSE resources[f] = <<>>

\* C24: the record persisted by a failed create_datasource carries exactly
\* the resources of the prior record of the datasource when one existed,
\* and twelve blank fields when none existed
C24_FailureKeepsPriorResources == (CreateDone /\ cur.outcome = "raised" /\ cur.saves > 0) => (IF cur.prior = {} THEN BlankFields(SavedDoc.resources) ELSE \E d \in cur.prior : SavedDoc.resources = d.resources)

\* the positions in the attempt's calls of a given call
CallsOf(step) == {i \in 1..Len(cur.calls) : cur.calls[i].step = step}

\* the positions at which ensure_catalog_integration reported the integration in use
InUseReports == {i \in CallsOf("ensure_catalog_integration") : ~cur.calls[i].ok /\ cur.calls[i].answer # <<>> /\ is_integration_in_use_error(cur.calls[i].answer[1])}

\* C25: an in-use report of ensure_catalog_integration is followed by the
\* cleanup of the linked artifacts and then by exactly one more call of
\* ensure_catalog_integration; a second in-use report triggers no further
\* cleanup or retry and fails the creation
C25_InUseOneShot == (cur.op = "create") => (/\ Cardinality(CallsOf("cleanup_catalog_linked_artifacts")) <= 1
                                            /\ Cardinality(CallsOf("ensure_catalog_integration")) <= 2
                                            /\ Cardinality(CallsOf("cleanup_catalog_linked_artifacts")) = 1 <=> InUseReports # {} /\ (cur.in_use # 1 \/ cur.pc = "done")
                                            /\ \A i \in InUseReports : i < Len(cur.calls) => (/\ cur.calls[i + 1].step = "cleanup_catalog_linked_artifacts"
                                                                                              /\ (cur.calls[i + 1].ok /\ i + 1 < Len(cur.calls)) => cur.calls[i + 2].step = "ensure_catalog_integration")
                                            /\ Cardinality(InUseReports) = 2 => (/\ CreateDone
                                                                                 /\ cur.outcome = "raised"
                                                                                 /\ cur.err[1].cls = "SnowflakeIntegrationInUseError"
                                                                                 /\ Len(cur.calls) \in InUseReports
                                                                                 /\ SavedDoc.status = "failed"))

\* a creation that failed on the second in-use report of one attempt
C25_Witness == CreateDone /\ cur.outcome = "raised" /\ Cardinality(InUseReports) = 2 /\ Cardinality(CallsOf("cleanup_catalog_linked_artifacts")) = 1

\* the positions at which ensure_catalog_linked_database was answered with an error
LinkedDatabaseAnswers == {i \in CallsOf("ensure_catalog_linked_database") : cur.calls[i].answer # <<>>}

\* the answer is a rejection of the OAuth credentials and not "already exists"
AuthenticationRejected(exc) == is_authorization_error(exc) /\ ~is_existing_object_error(exc)

\* C26: a rejection of ensure_catalog_linked_database for authentication
\* reasons ends create_datasource without another attempt, raises
\* SnowflakeAuthorizationError to the caller and records its text as the
\* last_error of the failed record; an "already exists" answer at the same
\* step makes the step succeed
C26_AuthorizationRejectionNotRetried == (cur.op = "create") => \A i \in LinkedDatabaseAnswers :
                                            LET exc == cur.calls[i].answer[1]
                                            IN  /\ is_existing_object_error(exc) => cur.calls[i].ok
                                                /\ AuthenticationRejected(exc) => (/\ ~cur.calls[i].ok
                                                                                   /\ i = Len(cur.calls)
                                                                                   /\ CreateDone
                                                                                   /\ cur.outcome = "raised"
                                                                                   /\ cur.err[1].cls = "SnowflakeAuthorizationError"
                                                                                   /\ cur.log[Len(cur.log)] = "SnowflakeAuthorizationError"
                                                                                   /\ SavedDoc.status = "failed"
                                                                                   /\ SavedDoc.last_error = <<ErrorText(cur.err[1])>>)

\* a creation that ended on the authentication rejection of the linked database
C26_Witness == /\ CreateDone
               /\ cur.outcome = "raised"
               /\ Len(cur.calls) \in LinkedDatabaseAnswers
               /\ AuthenticationRejected(cur.calls[Len(cur.calls)].answer[1])
               /\ SavedDoc.last_error = <<ErrorText(Exc("SnowflakeAuthorizationError", "ensure_catalog_linked_database"))>>

\* every identifier of the resources is filled in
AllIdentifiers(resources) == \A f \in ResourceFields : IF f \in {"service_principal_client_secret", "databricks_oauth_client_secret"} THEN resources[f] # 0 ELSE resources[f] # <<>>

\* the last call of the attempt was prime_catalog_linked_database and it raised
PrimingFailed == cur.op = "create" /\ cur.calls # <<>> /\ cur.calls[Len(cur.calls)].step = "prime_catalog_linked_database" /\ ~cur.calls[Len(cur.calls)].ok

\* C27: a failure of prime_catalog_linked_database does not change the
\* outcome of create_datasource: the call returns a record with status
\* succeeded that carries every resource identifier, and that record is
\* the one persisted
C27_PrimingBestEffort == PrimingFailed => (/\ CreateDone
                                           /\ cur.outcome = "returned"
                                           /\ cur.ret[1].status = "succeeded"
                                           /\ cur.ret[1].last_error = <<>>
                                           /\ AllIdentifiers(cur.ret[1].resources)
                                           /\ cur.ret[1].resources = built_resources(cur.nn, cur.azure_secret, cur.databricks_secret)
                                           /\ SavedDoc = record_to_json(cur.ret[1]))

\* a creation that returned although the priming raised
C27_Witness == PrimingFailed /\ CreateDone /\ cur.outcome = "returned" /\ SavedDoc.status = "succeeded" /\ <<cur.nn, "prime_catalog_linked_database">> \notin remote

\* the position of the subsystem a teardown call belongs to: integration,
\* governance, identity, storage
SubsystemOf(label) == IF label \in Range(SnowflakeSteps) THEN 1
                      ELSE IF label \in DatabricksGuarded \cup {"get_account_group"} THEN 2
                      ELSE IF label \in {"delete_group", "delete_service_principal", "delete_application"} THEN 3
                      ELSE 4

\* the positions of a call in the calls of the teardown
TeardownCallsOf(label) == {i \in 1..Len(del.calls) : del.calls[i] = label}

\* every call of the first label is made before every call of the second
Precedes(first, second) == \A i \in TeardownCallsOf(first), j \in TeardownCallsOf(second) : i < j

\* the schemas that have tables, and the labels of their deletes
DeleteSchemaLabels == {DeleteSchemaLabel(CatalogSchemas[i]) : i \in 2..Len(CatalogSchemas)}

\* C28: one delete_datasource call makes its teardown calls one after the
\* other, those of the integration first, then those of the governance,
\* then those of the identity, then those of the storage; within the
\* governance every table is deleted before its schema, every schema before
\* the catalog, the catalog before the external location and the external
\* location before the storage credential
C28_DeletionOrdering == (cur.op = "delete") => (/\ \A i \in 1..(Len(del.calls) - 1) : SubsystemOf(del.calls[i]) <= SubsystemOf(del.calls[i + 1])
                                                /\ \A label \in Range(del.calls) : Cardinality(TeardownCallsOf(label)) = 1
                                                /\ \A i \in 2..Len(CatalogSchemas) : \A j \in 1..Len(SchemaTables(CatalogSchemas[i])) :
                                                      Precedes(DeleteTableLabel(CatalogSchemas[i], SchemaTables(CatalogSchemas[i])[j]), DeleteSchemaLabel(CatalogSchemas[i]))
                                                /\ \A label \in DeleteSchemaLabels : Precedes(label, "delete_catalog")
                                                /\ Precedes("delete_catalog", "delete_external_location")
                                                /\ Precedes("delete_external_location", "delete_storage_credential")
                                                /\ "databricks" \in del.attempted /\ del.pc # "raised" => {"delete_catalog", "delete_external_location", "delete_storage_credential"} \subseteq Range(del.calls)
                                                /\ del.pc = "returned" => {SubsystemOf(del.calls[i]) : i \in 1..Len(del.calls)} = 1..4)

\* a teardown that went through the four subsystems and deleted two tables,
\* their schema and the catalog
C28_Witness == /\ cur.op = "delete"
               /\ del.pc = "returned"
               /\ del.attempted = {"snowflake", "databricks", "identity", "azure"}
               /\ {"drop_database", "delete_table[extra.t1]", "delete_table[extra.t2]", "delete_schema[extra]", "delete_catalog", "delete_application", "delete_container"} \subseteq Range(del.calls)
               /\ del.failed = {}

\* the positions of the trace at which a compensator raised
RaisedCompensators == {i \in 1..Len(wf.trace) : wf.trace[i].kind = "compensator" /\ wf.trace[i].raised}

\* C29: a compensator that raises during the compensation of a failed run
\* is not re-raised and does not keep the compensators of the earlier steps
\* from running; run ends by raising WorkflowExecutionError with the name of
\* the step whose action failed
C29_CompensationBestEffort == (WorkflowFailed /\ RaisedCompensators # {}) => (/\ wf.outcome = "raised"
                                                                              /\ wf.err = <<[cls |-> "WorkflowExecutionError", args |-> <<StepName(wf.failed)>>]>>
                                                                              /\ \A i \in RaisedCompensators : \A k \in 1..(wf.trace[i].step - 1) :
                                                                                    wf.steps[k].compensator => \E j \in (i + 1)..Len(wf.trace) : wf.trace[j].kind = "compensator" /\ wf.trace[j].step = k)

\* the action of the third step failed, the compensator of the second step
\* raised and the compensator of the first step ran after it
C29_Witness == /\ WorkflowFailed
               /\ wf.failed = 3
               /\ Len(wf.trace) = 5
               /\ wf.trace[4] = [kind |-> "compensator", step |-> 2, raised |-> TRUE]
               /\ wf.trace[5].kind = "compensator"
               /\ wf.trace[5].step = 1

\* the threads inside the with block of save
InsideLock == {t \in SaveThreads : th.pc[t] \in {"locked", "writing", "exit"}}

\* C30: at most one thread at a time is inside the locked part of save, so
\* at most one has a file open for writing; a thread that left save, by
\* return or by raise, does not own the lock; and every thread that waits
\* for the lock gets it
C30_SaveLock == /\ [](Cardinality(InsideLock) <= 1 /\ Cardinality(th.open) <= 1 /\ th.open \subseteq th.locked /\ th.locked = InsideLock)
                /\ \A t \in SaveThreads : (th.pc[t] = "acquire") ~> (th.pc[t] = "locked")

\* the write of one thread raised and a thread that entered save later is writing
C30_Witness == \E t \in SaveThreads : \E u \in SaveThreads \ {t} : th.outcome[t] = "raised" /\ th.pc[t] = "idle" /\ th.saves[t] = 1 /\ th.saves[u] = 1 /\ th.pc[u] = "writing" /\ th.locked = {u}

\* the succeeded records stored for the request name of the call before it began
PriorSucceeded == {d \in cur.prior : d.request.name = cur.name /\ d.status = "succeeded"}

\* C31: once a record of a request name is stored as succeeded, no later
\* create_datasource call for that request name changes the created_at of
\* the persisted record
C31_CreatedAtSetOnce == (CreateDone /\ PriorSucceeded # {}) => \A d \in PriorSucceeded : SavedDoc.resources.created_at = d.resources.created_at

\* the name before the slice [:63] is within the limit, so nothing is cut
NotTruncated(raw_name) == Len(qualify_name(CollapseDashes(StripDashes(SubInvalid(Lower(raw_name)))))) <= NameLimit

\* C32: for every raw name and naming configuration, when neither
\* application truncates, normalizing the normalized name gives the
\* normalized name again
C32_NamingIdempotence == (nm.pc = "done" /\ NotTruncated(nm.raw) /\ NotTruncated(nm.out)) => normalize_name(nm.out) = nm.out

(***************************************************************************)
(* C33: retries on propagation delays                                      *)
(***************************************************************************)
\* the answers the claim calls known-transient for an operation
KnownTransient(op, r) == IF op = "ensure_storage_credential"
                         THEN r.status = 404 /\ r.message \cap {"AADSTS700016", "was not found in the directory"} # {}
                         ELSE r.status = 403 /\ LowerMessage(r.message) \cap {"not authorized", "managed identity does not have", "validate_credential"} # {}

\* the answers that say the object is there already
AlreadyExists(op, r) == r.status = 409 \/ (op = "ensure_external_location" /\ r.error_code = "EXTERNAL_LOCATION_ALREADY_EXISTS")

\* the creation request is sent again only after a known-transient answer,
\* five times at most, and a call that used all five fails; any other error
\* answer ends the call with an error
BoundedSelective == /\ \A r \in rq.resent_after : KnownTransient(rq.op, r)
                    /\ rq.posts <= MaxAttempts
                    /\ (rq.posts = MaxAttempts /\ rq.last # <<>> /\ KnownTransient(rq.op, rq.last[1])) => (rq.pc = "done" /\ rq.outcome = "raised")
                    /\ (rq.last # <<>> /\ rq.last[1].status >= 400 /\ ~KnownTransient(rq.op, rq.last[1]) /\ ~AlreadyExists(rq.op, rq.last[1])) => (rq.pc = "done" /\ rq.outcome = "raised")
                    /\ (rq.last # <<>> /\ AlreadyExists(rq.op, rq.last[1])) => rq.pc \in {"done", "lookup"}

C34_TokenCaches == tk.last.provider # "none" => /\ tk.last.sent <=> (tk.last.prior = <<>> \/ tk.last.at >= tk.last.prior[1].expiry - RefreshMargin)
                                                /\ ~tk.last.sent => tk.last.returned = <<tk.last.prior[1].access_token>>
                                                /\ tk.last.provider = "ClientCredentialProvider" => \A scope \in TokenScopes \ {tk.last.scope} : tk.cache[scope] = tk.last.before[scope]

\* a later acquisition answered from the cache while the other scope holds
\* a token of its own and an earlier token of this scope was renewed
C34_Witness == /\ tk.last.provider = "ClientCredentialProvider" /\ ~tk.last.sent /\ tk.last.at > 0
               /\ \E scope \in TokenScopes \ {tk.last.scope} : tk.cache[scope] # <<>> /\ tk.cache[scope][1].access_token > tk.last.prior[1].access_token
               /\ tk.requests = MaxTokenRequests

(***************************************************************************)
(* C35, C36: the secrets minted during a call                              *)
(***************************************************************************)
\* the secret values the minting operations returned during the call
MintedInCall == (minted - (cur.azure_mints + cur.databricks_mints) + 1) .. minted

\* the secret values the stored document holds
SecretsOf(d) == {d.resources.service_principal_client_secret, d.resources.databricks_oauth_client_secret}

\* C35: every secret value a minting operation returned during a
\* create_datasource call is in the record the call persisted, whether the
\* call succeeded or failed at a later step.
C35_NoMintedSecretLost == (CreateDone /\ MintedInCall # {}) => (cur.saves > 0 /\ MintedInCall \subseteq SecretsOf(SavedDoc))

\* C36: within one create_datasource invocation each of the two minting
\* operations is called at most once, re-attempts included.
C36_OneMintingPerInvocation == cur.op = "create" => (cur.azure_mints <= 1 /\ cur.databricks_mints <= 1)

(***************************************************************************)
(* C37: what a teardown reported as complete leaves behind                 *)
(***************************************************************************)
\* the remote objects of a datasource that calls of the creation sequence
\* ensured and that still exist
Leftovers(nn) == {o \in remote : o[1] = nn /\ \E i \in 1..Len(CreateSteps) : o[2] = CreateSteps[i]}

\* C37: when delete_datasource returns with succeeded = true for all four
\* subsystems, no remote resource that an earlier create_datasource call for
\* the name ensured still exists.
C37_DeleteCompleteness == (DeleteDone /\ cur.outcome = "returned" /\ del.failed = {}) => Leftovers(cur.nn) = {}

(***************************************************************************)
(* C38: reading while a save is in progress                                *)
(***************************************************************************)
\* the documents a save stores
WholeDocuments == {record_to_json(record) : record \in SaveRecords}

\* C38: a get or list_records that ran while a save of the same name was in
\* progress did not fail, and what it loaded is a whole document that a save
\* stored, never a partially written one.
C38_NoTornRead == (th.read.op # "none" /\ th.read.concurrent) => (th.read.kind = "ok" /\ th.read.docs \subseteq WholeDocuments)

====
